---- MODULE Spec2Model ----
(***************************************************************************)
(* Task lifecycle store (TaskManager, src/src/lib/tasks/lifecycle.ts), the *)
(* dependency-ordered plan executor (PlannerAdapter, src/unnamed/part_004), *)
(* the capability registry (SubagentRegistry, src/src/lib/subagents/       *)
(* registry.ts) and the delegation engine (SubagentOrchestrator,           *)
(* src/src/lib/subagents/orchestrator.ts) of spark-agent.                  *)
(*                                                                         *)
(* JavaScript runs one synchronous stretch of code at a time: everything   *)
(* between two awaits is one atomic step.  A mutator of the TaskManager    *)
(* together with the synchronous delivery of its event (and whatever the   *)
(* handlers call re-entrantly) is therefore one action.                    *)
(***************************************************************************)
EXTENDS Integers, Sequences, FiniteSets, TLC

\* ---------------------------------------------------------------- bounds
MaxTasks == 2      \* tasks the environment creates directly (Spec)
MaxCalls == 4      \* calls the environment makes on the TaskManager (Spec)
MaxSubs == 2       \* length of the subscriber list
MaxClock == 1      \* largest reading of the logical clock
MaxActions == 3    \* actions of a plan (SpecPlan)
MaxRegs == 3       \* register / unregister calls on the registry (SpecRegistry)
MaxReq == 2        \* length of a required-capability list
MaxWorks == 3      \* work items handed to the orchestrator in one call (SpecOrchestrator)

\* ------------------------------------------------- optional values (T | undefined)
None == <<>>
Some(v) == <<v>>

VARIABLES
  tasks,          \* TaskManager.tasks: Map<string, Task>, key = position (insertion order)
  eventHandlers,  \* TaskManager.eventHandlers: TaskEventHandler[]
  delivered,      \* history: every handler invocation, in the order it happened
  mutations,      \* history: every tasks.set, in the order it happened
  ret,            \* what the last top-level TaskManager call returned (or that it raised)
  now,            \* the clock new Date() reads
  ncalls,         \* number of environment calls made so far (bounds the run)
  plan,           \* the plan handed to PlannerAdapter.execute (None before the call)
  phase,          \* execute: "idle" | "waiting" | "returned" | "raised"
  groups,         \* execute: the buckets not yet settled, head = bucket being awaited
  parentId,       \* execute: parentTask.id
  act,            \* per action: "unlaunched" | "inflight" | "fulfilled" | "rejected"
  child,          \* per action: task.id of executeAction's subtask
  calls,          \* history: collaborator invocations made by executeAction
  answer,         \* history: per action, what its collaborator answered
  rejection,      \* the first rejection Promise.all observed in the awaited bucket
  raised,         \* the error execute re-threw to its caller
  agents,         \* SubagentRegistry.agents: Map<string, Subagent>, in insertion order
  regLog,         \* history: every register / unregister call, in the order it happened
  regRet,         \* what the last unregister call returned
  mode,           \* orchestrator: the call in progress, "idle" | "delegate" |
                  \*   "delegateParallel" | "delegateSequential"
  works,          \* orchestrator: the SubagentTask[] of the running call
  item,           \* per work item: state "undispatched" | "inflight" | "settled" |
                  \*   "collected", and the id of the task sparkAgent.execute tracks it with
  results,        \* per work item: the SubagentResult its delegate call resolved with
  dispatch,       \* history: every delegate call, with what it resolved and invoked
  context,        \* delegateSequential: accumulatedContext
  propagate,      \* delegateSequential: the contextPropagation argument
  returned,       \* the value the orchestrator call resolved with
  request,        \* the MultiActionPlan.actions a client holds for decomposition
  decRet,         \* what the last decomposeForSubagents / inferCapabilities call returned
  runs            \* per concurrent caller of the shared store: the call it has in progress

planVars == <<plan, phase, groups, parentId, act, child, calls, answer, rejection, raised>>
regVars == <<agents, regLog, regRet>>
orchVars == <<mode, works, item, results, dispatch, context, propagate, returned>>
decVars == <<request, decRet>>
runVars == <<runs>>
vars == <<tasks, eventHandlers, delivered, mutations, ret, now, ncalls,
          plan, phase, groups, parentId, act, child, calls, answer, rejection, raised,
          agents, regLog, regRet,
          mode, works, item, results, dispatch, context, propagate, returned,
          request, decRet, runs>>

\* ------------------------------------------------------------ the Task type
TaskStatus == {"pending", "running", "completed", "failed"}
TaskType == {"plan", "mcp", "subagent"}
Terminal == {"completed", "failed"}

\* the handler functions a client may subscribe, named by what they do
\*   observer: only looks at the event (the logging handler of the example workflow)
\*   starter : starts every task as soon as it is created (calls back into the manager)
\*   thrower : throws
Handlers == {"observer", "starter", "thrower"}

\* The store as the mutators thread it: the fields a call can change, plus
\* thrown (an exception is propagating) and ret (the value being returned).
Store == [tasks |-> tasks, delivered |-> delivered, mutations |-> mutations,
          thrown |-> FALSE, ret |-> <<"undefined">>]

Known(st, id) == id \in 1..Len(st.tasks)

\* this.tasks.set(id, task): insert under a new key or replace under an old one
set(st, id, task, op) ==
  [st EXCEPT
     !.tasks = IF id = Len(st.tasks) + 1 THEN Append(@, task) ELSE [@ EXCEPT ![id] = task],
     !.mutations = Append(@, [op |-> op, id |-> id, task |-> task, subs |-> eventHandlers])]

\* return value of a mutator: an exception thrown by a handler passes through it
return(st, value) == [st EXCEPT !.ret = IF st.thrown THEN <<"raised">> ELSE value]

RECURSIVE forEach(_, _, _, _, _)
RECURSIVE start(_, _)

\* one subscriber being called with the event
handler(st, h, event, n) ==
  LET got == [st EXCEPT !.delivered = Append(@, [handler |-> h, seq |-> n, event |-> event])]
  IN CASE h = "thrower" -> [got EXCEPT !.thrown = TRUE]
       [] h = "starter" /\ event.type = "created" -> start(got, event.task.id)
       [] OTHER -> got

\* Array.prototype.forEach over the array emit was called on; an exception
\* thrown by a handler ends the loop
forEach(st, hs, i, event, n) ==
  IF i > Len(hs) \/ st.thrown THEN st
  ELSE forEach(handler(st, hs[i], event, n), hs, i + 1, event, n)

emit(st, event) == forEach(st, eventHandlers, 1, event, Len(st.mutations))

\* { ...task, id, status: 'pending', createdAt: new Date() }: every other field
\* is the caller's, the optional ones included when the caller passes them
create(st, task) ==
  LET id == Len(st.tasks) + 1
      passed(f) == IF f \in DOMAIN task THEN task[f] ELSE None
      newTask == [id |-> id, name |-> task.name, type |-> task.type,
                  status |-> "pending", parentId |-> task.parentId,
                  metadata |-> task.metadata,
                  result |-> passed("result"), error |-> passed("error"),
                  createdAt |-> now,
                  startedAt |-> passed("startedAt"), completedAt |-> passed("completedAt")]
  IN return(emit(set(st, id, newTask, "create"),
                 [type |-> "created", task |-> newTask, error |-> None]),
            <<"task", newTask>>)

\* fault: an id that is not in the store makes the call throw
startLoud(st, taskId) ==
  IF ~Known(st, taskId) THEN return([st EXCEPT !.thrown = TRUE], <<"undefined">>)
  ELSE LET updatedTask == [st.tasks[taskId] EXCEPT !.status = "running",
                                                   !.startedAt = Some(now)]
       IN return(emit(set(st, taskId, updatedTask, "start"),
                      [type |-> "started", task |-> updatedTask, error |-> None]),
                 <<"task", updatedTask>>)

start(st, taskId) ==
  IF ~Known(st, taskId) THEN return(st, <<"undefined">>)
  ELSE LET updatedTask == [st.tasks[taskId] EXCEPT !.status = "running",
                                                   !.startedAt = Some(now)]
       IN return(emit(set(st, taskId, updatedTask, "start"),
                      [type |-> "started", task |-> updatedTask, error |-> None]),
                 <<"task", updatedTask>>)

\* { ...task, ...progress }: progress is a record holding some of the fields
update(st, taskId, progress) ==
  IF ~Known(st, taskId) THEN return(st, <<"undefined">>)
  ELSE LET task == st.tasks[taskId]
           updatedTask == [f \in DOMAIN task |->
                             IF f \in DOMAIN progress THEN progress[f] ELSE task[f]]
       IN return(emit(set(st, taskId, updatedTask, "update"),
                      [type |-> "updated", task |-> updatedTask, error |-> None]),
                 <<"task", updatedTask>>)

\* fault: the result is not stored
finishForgetful(st, taskId, result) ==
  IF ~Known(st, taskId) THEN return(st, <<"undefined">>)
  ELSE LET updatedTask == [st.tasks[taskId] EXCEPT !.status = "completed",
                                                   !.completedAt = Some(now)]
       IN return(emit(set(st, taskId, updatedTask, "finish"),
                      [type |-> "finished", task |-> updatedTask, error |-> None]),
                 <<"task", updatedTask>>)

finish(st, taskId, result) ==
  IF ~Known(st, taskId) THEN return(st, <<"undefined">>)
  ELSE LET updatedTask == [st.tasks[taskId] EXCEPT !.status = "completed",
                                                   !.completedAt = Some(now),
                                                   !.result = result]
       IN return(emit(set(st, taskId, updatedTask, "finish"),
                      [type |-> "finished", task |-> updatedTask, error |-> None]),
                 <<"task", updatedTask>>)

error(st, taskId, message) ==
  IF ~Known(st, taskId) THEN return(st, <<"undefined">>)
  ELSE LET updatedTask == [st.tasks[taskId] EXCEPT !.status = "failed",
                                                   !.completedAt = Some(now),
                                                   !.error = Some(message)]
       IN return(emit(set(st, taskId, updatedTask, "error"),
                      [type |-> "error", task |-> updatedTask, error |-> Some(message)]),
                 <<"task", updatedTask>>)

\* get(taskId): this.tasks.get(taskId)
getTask(st, taskId) == IF Known(st, taskId) THEN Some(st.tasks[taskId]) ELSE None

\* fault: finished and failed tasks are left out of the unfiltered list
getAllLive(st, status) ==
  SelectSeq(st.tasks, LAMBDA t : IF status = None THEN t.status \notin Terminal
                                 ELSE t.status = status[1])

\* fault: the filter also lets pending tasks through
getAllLoose(st, status) ==
  IF status = None THEN st.tasks
  ELSE SelectSeq(st.tasks, LAMBDA t : t.status = status[1] \/ t.status = "pending")

\* getAll(status?): Array.from(this.tasks.values()), filtered when a status is given
getAll(st, status) ==
  IF status = None THEN st.tasks
  ELSE SelectSeq(st.tasks, LAMBDA t : t.status = status[1])

\* the store after a top-level call
Commit(st) ==
  /\ tasks' = st.tasks
  /\ delivered' = st.delivered
  /\ mutations' = st.mutations
  /\ ret' = st.ret

\* the callers that use the shared taskManager at the same time
Callers == {1, 2}

\* a caller that has made no call
IdleRun ==
  [kind |-> "idle", plan |-> <<>>, phase |-> "idle", groups |-> <<>>, parentId |-> None,
   act |-> <<>>, child |-> <<>>, calls |-> <<>>, answer |-> <<>>, rejection |-> None,
   raised |-> None, internalTask |-> None, result |-> None]

\* ------------------------------------------------------------ initial state
\* no call has been made on anything; the subscriber list and the content of
\* the registry are left to the specification
Untouched ==
  /\ tasks = <<>>
  /\ delivered = <<>>
  /\ mutations = <<>>
  /\ ret = <<"undefined">>
  /\ now = 0
  /\ ncalls = 0
  /\ plan = None
  /\ phase = "idle"
  /\ groups = <<>>
  /\ parentId = None
  /\ act = <<>>
  /\ child = <<>>
  /\ calls = <<>>
  /\ answer = <<>>
  /\ rejection = None
  /\ raised = None
  /\ regLog = <<>>
  /\ regRet = None
  /\ mode = "idle"
  /\ works = <<>>
  /\ item = <<>>
  /\ results = <<>>
  /\ dispatch = <<>>
  /\ context = {}
  /\ propagate = FALSE
  /\ returned = None
  /\ decRet = None
  /\ runs = [c \in Callers |-> IdleRun]

Init ==
  /\ Untouched
  /\ eventHandlers = <<>>
  /\ agents = <<>>
  /\ request = [id |-> "plan-1", actions |-> <<>>]

\* ------------------------------------------- a client of the TaskManager
\* what the environment passes to the mutators
\* Omit<Task, 'id' | 'status' | 'createdAt'>: name and type, and possibly more
TaskSpecs ==
  {[name |-> "t", type |-> "mcp", parentId |-> None, metadata |-> None],
   [name |-> "t", type |-> "mcp", parentId |-> None, metadata |-> None,
    startedAt |-> Some(0)]}
Progress == {[metadata |-> Some("m")], [status |-> "pending"], [id |-> 0]}
Results == {Some("r1")}
Messages == {"e1"}
\* every stored id and one id that is not in the store
Ids == 1..(Len(tasks) + 1)

CallCreate ==
  /\ Len(tasks) < MaxTasks
  /\ ncalls < MaxCalls
  /\ \E task \in TaskSpecs : Commit(create(Store, task))
  /\ ncalls' = ncalls + 1
  /\ UNCHANGED <<eventHandlers, now>>
  /\ UNCHANGED <<planVars, regVars, orchVars, decVars, runVars>>

CallStart ==
  /\ ncalls < MaxCalls
  /\ \E id \in Ids : Commit(start(Store, id))
  /\ ncalls' = ncalls + 1
  /\ UNCHANGED <<eventHandlers, now>>
  /\ UNCHANGED <<planVars, regVars, orchVars, decVars, runVars>>

CallUpdate ==
  /\ ncalls < MaxCalls
  /\ \E id \in Ids, progress \in Progress : Commit(update(Store, id, progress))
  /\ ncalls' = ncalls + 1
  /\ UNCHANGED <<eventHandlers, now>>
  /\ UNCHANGED <<planVars, regVars, orchVars, decVars, runVars>>

CallFinish ==
  /\ ncalls < MaxCalls
  /\ \E id \in Ids, result \in Results : Commit(finish(Store, id, result))
  /\ ncalls' = ncalls + 1
  /\ UNCHANGED <<eventHandlers, now>>
  /\ UNCHANGED <<planVars, regVars, orchVars, decVars, runVars>>

CallError ==
  /\ ncalls < MaxCalls
  /\ \E id \in Ids, message \in Messages : Commit(error(Store, id, message))
  /\ ncalls' = ncalls + 1
  /\ UNCHANGED <<eventHandlers, now>>
  /\ UNCHANGED <<planVars, regVars, orchVars, decVars, runVars>>

\* onEvent(handler): this.eventHandlers.push(handler)
onEvent ==
  /\ Len(eventHandlers) < MaxSubs
  /\ ncalls < MaxCalls
  /\ \E h \in Handlers : eventHandlers' = Append(eventHandlers, h)
  /\ ncalls' = ncalls + 1
  /\ UNCHANGED <<tasks, delivered, mutations, ret, now>>
  /\ UNCHANGED <<planVars, regVars, orchVars, decVars, runVars>>

\* the function onEvent returned: eventHandlers.filter((h) => h !== handler)
unsubscribe ==
  /\ \E k \in 1..Len(eventHandlers) :
       eventHandlers' = SelectSeq(eventHandlers, LAMBDA h : h # eventHandlers[k])
  /\ ncalls < MaxCalls
  /\ ncalls' = ncalls + 1
  /\ UNCHANGED <<tasks, delivered, mutations, ret, now>>
  /\ UNCHANGED <<planVars, regVars, orchVars, decVars, runVars>>

\* time passes between two calls
Tick ==
  /\ now < MaxClock
  /\ now' = now + 1
  /\ UNCHANGED <<tasks, eventHandlers, delivered, mutations, ret, ncalls>>
  /\ UNCHANGED <<planVars, regVars, orchVars, decVars, runVars>>

Next ==
  \/ CallCreate
  \/ CallStart
  \/ CallUpdate
  \/ CallFinish
  \/ CallError
  \/ onEvent
  \/ unsubscribe
  \/ Tick

Spec == Init /\ [][Next]_vars

\* ============================================================ PlannerAdapter
\* A plan action: its id is its position in plan.actions; order is optional.
ActionTypes == {"mcp", "subagent"}
Orders == {None, Some(0), Some(1), Some(2)}
PlanActions == [type : ActionTypes, order : Orders]
Plans == UNION {[1..n -> PlanActions] : n \in 0..MaxActions}

\* what mcpClient.executeAction resolves to for action i (MCPResponse); it never
\* rejects: MCPClient.executeAction catches every exception and reports it as a
\* response.  The failure message names the action, so that two failures differ.
ErrorText == <<"e1", "e2", "e3", "e4", "e5", "e6">>
MCPResponses(i) ==
  {[success |-> TRUE, data |-> Some("d"), error |-> None],
   [success |-> FALSE, data |-> None, error |-> Some(ErrorText[i])]}

\* new Error(message): the message of new Error(undefined) is the empty string
Error(message) ==
  [isError |-> TRUE, message |-> IF message = None THEN "" ELSE message[1]]

\* fault: the message of the error is dropped for the fallback text
messageDropped(e, fallback) == fallback

\* error instanceof Error ? error.message : fallback
messageOf(e, fallback) == IF e.isError THEN e.message ELSE fallback

\* action.order ?? 0
orderOf(action) == IF action.order = None THEN 0 ELSE action.order[1]

\* fault: the comparator of the sort is reversed (b - a)
RECURSIVE sortDescending(_)
sortDescending(S) ==
  IF S = {} THEN <<>>
  ELSE LET greatest == CHOOSE x \in S : \A y \in S : x >= y
       IN <<greatest>> \o sortDescending(S \ {greatest})

\* .sort(([a], [b]) => a - b) over the keys of the Map
RECURSIVE sortAscending(_)
sortAscending(S) ==
  IF S = {} THEN <<>>
  ELSE LET least == CHOOSE x \in S : \A y \in S : x <= y
       IN <<least>> \o sortAscending(S \ {least})

\* the buckets, as sequences of action positions, in ascending order of their key
groupByOrder(actions) ==
  LET keys == sortAscending({orderOf(actions[i]) : i \in DOMAIN actions})
      positions == [i \in 1..Len(actions) |-> i]
  IN [k \in 1..Len(keys) |->
        SelectSeq(positions, LAMBDA i : orderOf(actions[i]) = keys[k])]

\* fault: the task of a delegated action is left as it was started
executeSubagentActionPending(m, i, taskId) == [m EXCEPT !.act[i] = "fulfilled"]

\* executeSubagentAction: no collaborator is called, the task is finished at once
executeSubagentAction(m, i, taskId) ==
  [m EXCEPT !.st = finish(m.st, taskId, Some("subagent_pending")),
            !.act[i] = "fulfilled"]

\* fault: the subtask is created without its parentId
executeActionUnlinked(m, actions, i, parentTaskId) ==
  LET created == create(m.st, [name |-> "action", type |-> actions[i].type,
                              parentId |-> None,
                              metadata |-> Some(<<"actionId", i>>)])
      taskId == created.ret[2].id
      started == [m EXCEPT !.st = start(created, taskId), !.child[i] = Some(taskId)]
  IN IF actions[i].type = "mcp"
     THEN [started EXCEPT
             !.calls = Append(@, [backend |-> "mcp", action |-> i,
                                  at |-> Len(started.st.mutations)]),
             !.act[i] = "inflight"]
     ELSE executeSubagentAction(started, i, taskId)

\* fault: the subtask is linked to the plan task created last in the store
executeActionLatestPlan(m, actions, i, parentTaskId) ==
  LET latestPlan == CHOOSE id \in DOMAIN m.st.tasks :
                       /\ m.st.tasks[id].type = "plan"
                       /\ \A other \in DOMAIN m.st.tasks :
                            m.st.tasks[other].type = "plan" => other <= id
      created == create(m.st, [name |-> "action", type |-> actions[i].type,
                              parentId |-> Some(latestPlan),
                              metadata |-> Some(<<"actionId", i>>)])
      taskId == created.ret[2].id
      started == [m EXCEPT !.st = start(created, taskId), !.child[i] = Some(taskId)]
  IN IF actions[i].type = "mcp"
     THEN [started EXCEPT
             !.calls = Append(@, [backend |-> "mcp", action |-> i,
                                  at |-> Len(started.st.mutations)]),
             !.act[i] = "inflight"]
     ELSE executeSubagentAction(started, i, taskId)

\* executeAction up to its first await: the subtask is created and started, then
\* an mcp action is handed to mcpClient.executeAction (the call is pending) and
\* a subagent action goes through executeSubagentAction
executeAction(m, actions, i, parentTaskId) ==
  LET created == create(m.st, [name |-> "action", type |-> actions[i].type,
                              parentId |-> Some(parentTaskId),
                              metadata |-> Some(<<"actionId", i>>)])
      taskId == created.ret[2].id
      started == [m EXCEPT !.st = start(created, taskId), !.child[i] = Some(taskId)]
  IN IF actions[i].type = "mcp"
     THEN [started EXCEPT
             !.calls = Append(@, [backend |-> "mcp", action |-> i,
                                  at |-> Len(started.st.mutations)]),
             !.act[i] = "inflight"]
     ELSE executeSubagentAction(started, i, taskId)

\* group.map((action) => this.executeAction(action, parentTask.id))
RECURSIVE map(_, _, _, _, _)
map(m, actions, group, k, parentTaskId) ==
  IF k > Len(group) THEN m
  ELSE map(executeAction(m, actions, group[k], parentTaskId),
           actions, group, k + 1, parentTaskId)

CommitPlan(m) ==
  /\ Commit(m.st)
  /\ act' = m.act
  /\ child' = m.child
  /\ calls' = m.calls

Machine == [st |-> Store, act |-> act, child |-> child, calls |-> calls]

\* what a throwing subscriber throws
HandlerError == Error(Some("handler"))

\* execute(plan) up to its first await (or to its end, for a plan without actions).
\* taskManager.create(...) stands before the try: an exception that leaves it
\* (thrown by a subscribed handler, out of emit) rejects the promise of execute
execute(p) ==
  /\ phase = "idle"
  /\ plan' = Some(p)
  /\ answer' = [i \in DOMAIN p |-> None]
  /\ LET created == create(Store, [name |-> "plan", type |-> "plan", parentId |-> None,
                                   metadata |-> Some(<<"planId", "p">>)])
     IN IF created.thrown
        THEN /\ Commit(created)
             /\ phase' = "raised"
             /\ raised' = Some(HandlerError)
             /\ act' = [i \in DOMAIN p |-> "unlaunched"]
             /\ child' = [i \in DOMAIN p |-> None]
             /\ UNCHANGED <<groups, parentId, calls>>
        ELSE LET parent == created.ret[2].id
                 started == start(created, parent)
                 actionGroups == groupByOrder(p)
                 m0 == [st |-> started, act |-> [i \in DOMAIN p |-> "unlaunched"],
                        child |-> [i \in DOMAIN p |-> None], calls |-> <<>>]
             IN /\ parentId' = Some(parent)
                /\ groups' = actionGroups
                /\ UNCHANGED raised
                /\ IF actionGroups = <<>>
                   THEN /\ CommitPlan([m0 EXCEPT
                                         !.st = finish(started, parent, Some("completed"))])
                        /\ phase' = "returned"
                   ELSE /\ CommitPlan(map(m0, p, actionGroups[1], 1, parent))
                        /\ phase' = "waiting"
  /\ UNCHANGED <<eventHandlers, now, ncalls, rejection>>
  /\ UNCHANGED <<regVars, orchVars, decVars, runVars>>

\* fault: a failing action marks the parent task as well
respondMarksParent(i, result) ==
  /\ act[i] = "inflight"
  /\ answer' = [answer EXCEPT ![i] = Some(result)]
  /\ IF result.success
     THEN /\ Commit(finish(Store, child[i][1], result.data))
          /\ act' = [act EXCEPT ![i] = "fulfilled"]
          /\ UNCHANGED rejection
     ELSE LET thrown == Error(result.error)
              message == messageOf(thrown, "Action execution failed")
          IN /\ Commit(error(error(Store, child[i][1], message), parentId[1], message))
             /\ act' = [act EXCEPT ![i] = "rejected"]
             /\ rejection' = IF phase = "waiting" /\ rejection = None
                             THEN Some(thrown) ELSE rejection
  /\ UNCHANGED <<eventHandlers, now, ncalls, plan, phase, groups, parentId, child, calls, raised>>
  /\ UNCHANGED <<regVars, orchVars, decVars, runVars>>

\* fault: a failed action is tried again: its task is started anew and the
\* backend is called a second time
respondRetries(i, result) ==
  /\ act[i] = "inflight"
  /\ answer' = [answer EXCEPT ![i] = Some(result)]
  /\ IF result.success
     THEN /\ Commit(finish(Store, child[i][1], result.data))
          /\ act' = [act EXCEPT ![i] = "fulfilled"]
          /\ UNCHANGED <<rejection, calls>>
     ELSE LET thrown == Error(result.error)
              failed == error(Store, child[i][1], messageOf(thrown, "Action execution failed"))
          IN IF answer[i] = None
             THEN /\ Commit(start(failed, child[i][1]))
                  /\ calls' = Append(calls, [backend |-> "mcp", action |-> i,
                                             at |-> Len(failed.mutations) + 1])
                  /\ UNCHANGED <<act, rejection>>
             ELSE /\ Commit(failed)
                  /\ act' = [act EXCEPT ![i] = "rejected"]
                  /\ rejection' = IF phase = "waiting" /\ rejection = None
                                  THEN Some(thrown) ELSE rejection
                  /\ UNCHANGED calls
  /\ UNCHANGED <<eventHandlers, now, ncalls, plan, phase, groups, parentId, child, raised>>
  /\ UNCHANGED <<regVars, orchVars, decVars, runVars>>

\* mcpClient.executeAction answers for action i: executeAction resumes after its await
respond(i, result) ==
  /\ act[i] = "inflight"
  /\ answer' = [answer EXCEPT ![i] = Some(result)]
  /\ IF result.success
     THEN /\ Commit(finish(Store, child[i][1], result.data))
          /\ act' = [act EXCEPT ![i] = "fulfilled"]
          /\ UNCHANGED rejection
     ELSE LET thrown == Error(result.error)
          IN /\ Commit(error(Store, child[i][1], messageOf(thrown, "Action execution failed")))
             /\ act' = [act EXCEPT ![i] = "rejected"]
             \* Promise.all rejects with the first rejection of the bucket it awaits
             /\ rejection' = IF phase = "waiting" /\ rejection = None
                             THEN Some(thrown) ELSE rejection
  /\ UNCHANGED <<eventHandlers, now, ncalls, plan, phase, groups, parentId, child, calls, raised>>
  /\ UNCHANGED <<regVars, orchVars, decVars, runVars>>

\* Promise.all of the awaited bucket fulfils: the loop goes on to the next bucket,
\* or execute finishes the parent task and returns
bucketFulfilled ==
  /\ phase = "waiting"
  /\ \A k \in 1..Len(groups[1]) : act[groups[1][k]] = "fulfilled"
  /\ groups' = Tail(groups)
  /\ IF Tail(groups) = <<>>
     THEN /\ CommitPlan([Machine EXCEPT !.st = finish(Store, parentId[1], Some("completed"))])
          /\ phase' = "returned"
     ELSE /\ CommitPlan(map(Machine, plan[1], groups[2], 1, parentId[1]))
          /\ phase' = "waiting"
  /\ UNCHANGED <<eventHandlers, now, ncalls, plan, parentId, answer, rejection, raised>>
  /\ UNCHANGED <<regVars, orchVars, decVars, runVars>>

\* fault: the actions of the bucket that are still in flight are cancelled
bucketRejectedCancels ==
  /\ phase = "waiting"
  /\ rejection # None
  /\ LET marked == error(Store, parentId[1], messageOf(rejection[1], "Plan execution failed"))
     IN Commit([marked EXCEPT !.tasks =
                  [id \in DOMAIN @ |-> IF @[id].status = "running"
                                       THEN [@[id] EXCEPT !.status = "failed"]
                                       ELSE @[id]]])
  /\ phase' = "raised"
  /\ raised' = rejection
  /\ UNCHANGED <<eventHandlers, now, ncalls, plan, groups, parentId, act, child, calls, answer,
                 rejection>>
  /\ UNCHANGED <<regVars, orchVars, decVars, runVars>>

\* Promise.all of the awaited bucket rejects: execute marks the parent and re-throws
bucketRejected ==
  /\ phase = "waiting"
  /\ rejection # None
  /\ Commit(error(Store, parentId[1], messageOf(rejection[1], "Plan execution failed")))
  /\ phase' = "raised"
  /\ raised' = rejection
  /\ UNCHANGED <<eventHandlers, now, ncalls, plan, groups, parentId, act, child, calls, answer,
                 rejection>>
  /\ UNCHANGED <<regVars, orchVars, decVars, runVars>>

NextPlan ==
  \/ \E p \in Plans : execute(p)
  \/ \E i \in DOMAIN act : \E result \in MCPResponses(i) : respond(i, result)
  \/ bucketFulfilled
  \/ bucketRejected

SpecPlan == Init /\ [][NextPlan]_vars

\* The plan executor with the scheduling the runtime gives it: every call of
\* mcpClient.executeAction that is pending is answered, and a Promise.all that
\* has settled has its continuation run (the job queue is drained).  The plans
\* cover no action, a delegated action, three actions in one bucket, and two
\* actions in one bucket followed by a bucket of one action of either type.
FairPlans ==
  {<<>>,
   <<[type |-> "subagent", order |-> None]>>,
   <<[type |-> "mcp", order |-> Some(0)], [type |-> "mcp", order |-> None],
     [type |-> "mcp", order |-> Some(0)]>>,
   <<[type |-> "mcp", order |-> Some(0)], [type |-> "mcp", order |-> None],
     [type |-> "subagent", order |-> Some(1)]>>,
   <<[type |-> "mcp", order |-> Some(0)], [type |-> "mcp", order |-> None],
     [type |-> "mcp", order |-> Some(1)]>>}

NextPlanFair ==
  \/ \E p \in FairPlans : execute(p)
  \/ \E i \in DOMAIN act : \E result \in MCPResponses(i) : respond(i, result)
  \/ bucketFulfilled
  \/ bucketRejected

SpecPlanFair ==
  /\ Init
  /\ [][NextPlanFair]_vars
  /\ WF_vars(\E i \in DOMAIN act : \E result \in MCPResponses(i) : respond(i, result))
  /\ WF_vars(bucketFulfilled)
  /\ WF_vars(bucketRejected)

\* the plan executor on a TaskManager that may have a throwing subscriber
InitPlanSubscribed ==
  /\ Untouched
  /\ eventHandlers \in {<<>>, <<"thrower">>}
  /\ agents = <<>>
  /\ request = [id |-> "plan-1", actions |-> <<>>]

SpecPlanSubscribed == InitPlanSubscribed /\ [][NextPlan]_vars

\* ========================================================= SubagentRegistry
SubagentCapability ==
  {"code", "testing", "aesthetics", "presentation", "research", "multimodal", "mcp"}

\* agent.capabilities is only ever read through includes(): a set
has(ags, id) == \E k \in 1..Len(ags) : ags[k].id = id

\* fault: a list that is appended to, in place of a map keyed by id
registerAppend(ags, agent) == Append(ags, agent)

\* this.agents.set(agent.id, agent): a key already in the Map keeps its place in
\* the iteration order and gets the new value; a new key goes to the end
register(ags, agent) ==
  IF has(ags, agent.id)
  THEN [k \in 1..Len(ags) |-> IF ags[k].id = agent.id THEN agent ELSE ags[k]]
  ELSE Append(ags, agent)

\* this.agents.delete(id): the entry leaves the iteration order
unregister(ags, id) == SelectSeq(ags, LAMBDA a : a.id # id)

get(ags, id) == IF has(ags, id) THEN Some(ags[CHOOSE k \in 1..Len(ags) : ags[k].id = id])
                ELSE None

\* requiredCapabilities.filter((cap) => agent.capabilities.includes(cap)).length
score(agent, requiredCapabilities) ==
  Cardinality({k \in 1..Len(requiredCapabilities) :
                 requiredCapabilities[k] \in agent.capabilities})

RECURSIVE forOfLatest(_, _, _, _, _)
\* fault: the scan takes an agent that equals the best score too
forOfLatest(ags, requiredCapabilities, k, bestMatch, bestScore) ==
  IF k > Len(ags) THEN bestMatch
  ELSE LET s == score(ags[k], requiredCapabilities)
       IN IF s >= bestScore /\ s > 0
          THEN forOfLatest(ags, requiredCapabilities, k + 1, Some(ags[k]), s)
          ELSE forOfLatest(ags, requiredCapabilities, k + 1, bestMatch, bestScore)

RECURSIVE forOfForgetful(_, _, _, _, _)
\* fault: the scan never raises bestScore
forOfForgetful(ags, requiredCapabilities, k, bestMatch, bestScore) ==
  IF k > Len(ags) THEN bestMatch
  ELSE LET s == score(ags[k], requiredCapabilities)
       IN IF s > bestScore
          THEN forOfForgetful(ags, requiredCapabilities, k + 1, Some(ags[k]), bestScore)
          ELSE forOfForgetful(ags, requiredCapabilities, k + 1, bestMatch, bestScore)

RECURSIVE forOfAvailable(_, _, _, _, _)
\* fault: the scan passes over an agent that is not available
forOfAvailable(ags, requiredCapabilities, k, bestMatch, bestScore) ==
  IF k > Len(ags) THEN bestMatch
  ELSE LET s == score(ags[k], requiredCapabilities)
       IN IF s > bestScore /\ ags[k].status = "available"
          THEN forOfAvailable(ags, requiredCapabilities, k + 1, Some(ags[k]), s)
          ELSE forOfAvailable(ags, requiredCapabilities, k + 1, bestMatch, bestScore)

RECURSIVE forOf(_, _, _, _, _)
\* for (const agent of this.agents.values()) { ... if (score > bestScore) ... }
forOf(ags, requiredCapabilities, k, bestMatch, bestScore) ==
  IF k > Len(ags) THEN bestMatch
  ELSE LET s == score(ags[k], requiredCapabilities)
       IN IF s > bestScore
          THEN forOf(ags, requiredCapabilities, k + 1, Some(ags[k]), s)
          ELSE forOf(ags, requiredCapabilities, k + 1, bestMatch, bestScore)

findBestMatch(ags, requiredCapabilities) == forOf(ags, requiredCapabilities, 1, None, 0)

SubagentStatus == {"available", "busy", "offline"}
\* isAvailable(agentId): agent?.status === 'available'
isAvailable(ags, agentId) ==
  get(ags, agentId) # None /\ get(ags, agentId)[1].status = "available"

\* fault: the filter keeps every agent that has any capability at all
findByCapabilityAny(ags, capability) ==
  SelectSeq(ags, LAMBDA agent : agent.capabilities # {})

\* Array.from(this.agents.values()).filter((agent) => agent.capabilities.includes(capability))
findByCapability(ags, capability) ==
  SelectSeq(ags, LAMBDA agent : capability \in agent.capabilities)

\* ------------------------------------------------ a client of the registry
AgentIds == {"test-agent", "full-agent"}
CapabilitySets == {{"code", "testing"}, {"code", "testing", "aesthetics"}, {"aesthetics"}}
Subagents == [id : AgentIds, capabilities : CapabilitySets, status : {"available"}]
Required == {"code", "aesthetics"}
RequiredLists == UNION {[1..n -> Required] : n \in 0..MaxReq}

storeVars == <<tasks, eventHandlers, delivered, mutations, ret, now, ncalls>>

CallRegister ==
  /\ Len(regLog) < MaxRegs
  /\ \E agent \in Subagents :
       /\ agents' = register(agents, agent)
       /\ regLog' = Append(regLog, [op |-> "register", id |-> agent.id, agent |-> Some(agent)])
  /\ regRet' = None
  /\ UNCHANGED <<storeVars, planVars, orchVars, decVars, runVars>>

CallUnregister ==
  /\ Len(regLog) < MaxRegs
  /\ \E id \in AgentIds :
       /\ agents' = unregister(agents, id)
       /\ regRet' = Some([call |-> "unregister", arg |-> <<id>>, value |-> <<has(agents, id)>>])
       /\ regLog' = Append(regLog, [op |-> "unregister", id |-> id, agent |-> None])
  /\ UNCHANGED <<storeVars, planVars, orchVars, decVars, runVars>>

CallFindBestMatch ==
  /\ \E requiredCapabilities \in RequiredLists :
       regRet' = Some([call |-> "findBestMatch", arg |-> requiredCapabilities,
                       value |-> findBestMatch(agents, requiredCapabilities)])
  /\ UNCHANGED <<agents, regLog>>
  /\ UNCHANGED <<storeVars, planVars, orchVars, decVars, runVars>>

CallFindByCapability ==
  /\ \E capability \in Required :
       regRet' = Some([call |-> "findByCapability", arg |-> <<capability>>,
                       value |-> findByCapability(agents, capability)])
  /\ UNCHANGED <<agents, regLog>>
  /\ UNCHANGED <<storeVars, planVars, orchVars, decVars, runVars>>

NextRegistry ==
  \/ CallRegister
  \/ CallUnregister
  \/ CallFindBestMatch
  \/ CallFindByCapability

SpecRegistry == Init /\ [][NextRegistry]_vars


\* ====================================================== SubagentOrchestrator
\* sparkAgent.getAgentConfig(), the descriptor the constructor registers
SparkAgentConfig ==
  [id |-> "spark-agent", capabilities |-> SubagentCapability, status |-> "available"]
\* a descriptor of another subagent
TestAgent == [id |-> "test-agent", capabilities |-> {"code", "testing"}, status |-> "available"]

\* the registry singleton when an orchestrator call is made: after the
\* constructor alone, with another subagent registered before the constructor
\* ran and spark-agent registered again as busy after it, and with spark-agent
\* unregistered after that
Registries ==
  {register(<<>>, SparkAgentConfig),
   register(register(register(<<>>, TestAgent), SparkAgentConfig),
            [SparkAgentConfig EXCEPT !.status = "busy"]),
   unregister(register(register(<<>>, TestAgent), SparkAgentConfig), "spark-agent")}

\* Record<string, unknown>: a set of key/value entries, one per key
\* `result_${n}` is the key <<"result", n>>
resultKey(n) == <<"result", n>>
\* { ...a, ...b }
merge(a, b) == {e \in a : \A f \in b : f.key # e.key} \cup b

\* JavaScript truthiness of an optional string
truthy(v) == v # None /\ v[1] # ""

\* what the Spark backend answers for item i: a JSON body with an output, a JSON
\* body whose output is the empty string, or a response that is not ok
SparkOutput == <<"o1", "o2", "o3", "o4">>
SparkResponses(i) ==
  {[ok |-> TRUE, output |-> Some(SparkOutput[i]), text |-> None],
   [ok |-> TRUE, output |-> Some(""), text |-> None],
   [ok |-> FALSE, output |-> None, text |-> Some(ErrorText[i])]}

\* the orchestrator as its calls thread it
Engine == [st |-> Store, item |-> item, results |-> results, dispatch |-> dispatch]

CommitEngine(m) ==
  /\ Commit(m.st)
  /\ item' = m.item
  /\ results' = m.results
  /\ dispatch' = m.dispatch

\* SparkAgentClient.execute up to its await of fetch
sparkAgentExecute(m, i, task) ==
  LET created == create(m.st, [name |-> "Spark", type |-> "subagent", parentId |-> None,
                               metadata |-> Some(<<"spark-agent", task.capabilities>>)])
      internalTask == created.ret[2].id
  IN [m EXCEPT !.st = start(created, internalTask),
               !.item[i] = [state |-> "inflight", internalTask |-> Some(internalTask)]]

executeGenericSubagent(m, i, agentId, task) ==
  [m EXCEPT !.results[i] = Some([success |-> FALSE, taskId |-> None, output |-> None,
                                 error |-> Some(<<"execution not implemented", agentId>>)]),
            !.item[i].state = "settled"]

\* fault: the tracking task is opened before an executor is looked up
delegateTracked(m, i, task) ==
  LET agent == findBestMatch(agents, task.capabilities)
      invoked == [m EXCEPT !.dispatch = Append(@, [item |-> i, resolved |-> None,
                                                   invoked |-> None, context |-> task.context])]
  IN IF agent = None
     THEN [sparkAgentExecute(invoked, i, task) EXCEPT
             !.results[i] = Some([success |-> FALSE, taskId |-> None, output |-> None,
                                  error |-> Some(<<"No subagent found", task.capabilities>>)]),
             !.item[i].state = "settled"]
     ELSE sparkAgentExecute(
            [m EXCEPT !.dispatch = Append(@, [item |-> i, resolved |-> Some(agent[1].id),
                                              invoked |-> Some("spark-agent"),
                                              context |-> task.context])], i, task)

\* delegate(task), called for item i, up to its first await
delegate(m, i, task) ==
  LET agent == findBestMatch(agents, task.capabilities)
      call(invoked) ==
        [m EXCEPT !.dispatch =
           Append(@, [item |-> i,
                      resolved |-> IF agent = None THEN None ELSE Some(agent[1].id),
                      invoked |-> invoked, context |-> task.context])]
  IN IF agent = None
     THEN [call(None) EXCEPT
             !.results[i] = Some([success |-> FALSE, taskId |-> None, output |-> None,
                                  error |-> Some(<<"No subagent found", task.capabilities>>)]),
             !.item[i].state = "settled"]
     ELSE IF agent[1].id = "spark-agent"
          THEN sparkAgentExecute(call(Some("spark-agent")), i, task)
          ELSE executeGenericSubagent(call(None), i, agent[1].id, task)

RECURSIVE mapDelegate(_, _, _)
\* tasks.map((task) => this.delegate(task)): every delegate call runs to its
\* first await before map returns
mapDelegate(m, tasks_, k) ==
  IF k > Len(tasks_) THEN m ELSE mapDelegate(delegate(m, k, tasks_[k]), tasks_, k + 1)

\* Promise.all fulfils when every promise has fulfilled (delegate never rejects)
promiseAll(its) == \A i \in DOMAIN its : its[i].state = "settled"

\* contextPropagation ? { ...task, context: { ...task.context, ...accumulatedContext } } : task
enrichedTask(task, accumulatedContext, contextPropagation) ==
  IF contextPropagation
  THEN [task EXCEPT !.context = merge(task.context, accumulatedContext)]
  ELSE task

\* if (result.success && result.output) accumulatedContext = { ..., [`result_${n}`]: output }
accumulated(accumulatedContext, result, n) ==
  IF result.success /\ truthy(result.output)
  THEN merge(accumulatedContext, {[key |-> resultKey(n), value |-> result.output[1]]})
  ELSE accumulatedContext

\* fault: the results come back in the order opposite to the input
resultsReversed(rs) == [i \in DOMAIN rs |-> rs[Len(rs) + 1 - i][1]]

\* the array an orchestrator call resolves with
resultsOf(rs) == [i \in DOMAIN rs |-> rs[i][1]]

\* fault: the loop does not wait, it starts every remaining item
iterationEager(m, tasks_, k, accumulatedContext, contextPropagation) == mapDelegate(m, tasks_, k)

\* one iteration of the for..of loop of delegateSequential, up to its await
iteration(m, tasks_, k, accumulatedContext, contextPropagation) ==
  delegate(m, k, enrichedTask(tasks_[k], accumulatedContext, contextPropagation))

\* ------------------------------------------------ a client of the orchestrator
SubagentTasks ==
  {[capabilities |-> <<"code">>, context |-> {}],
   [capabilities |-> <<"code">>, context |-> {[key |-> resultKey(0), value |-> "own"]}],
   [capabilities |-> <<"research">>, context |-> {}]}
WorkLists == UNION {[1..n -> SubagentTasks] : n \in 0..MaxWorks}

\* the orchestrator with nothing dispatched yet for the given items
Fresh(tasks_) ==
  [st |-> Store,
   item |-> [i \in DOMAIN tasks_ |-> [state |-> "undispatched", internalTask |-> None]],
   results |-> [i \in DOMAIN tasks_ |-> None],
   dispatch |-> <<>>]

CallDelegate ==
  /\ mode = "idle"
  /\ \E task \in SubagentTasks :
       /\ works' = <<task>>
       /\ CommitEngine(delegate(Fresh(<<task>>), 1, task))
  /\ mode' = "delegate"
  /\ UNCHANGED <<eventHandlers, now, ncalls, context, propagate, returned>>
  /\ UNCHANGED <<planVars, regVars, decVars, runVars>>

\* the promise of delegate(task) fulfils
delegateFulfilled ==
  /\ mode = "delegate"
  /\ returned = None
  /\ item[1].state = "settled"
  /\ returned' = Some(results[1][1])
  /\ UNCHANGED <<storeVars, planVars, regVars, decVars, runVars>>
  /\ UNCHANGED <<mode, works, item, results, dispatch, context, propagate>>

delegateParallel ==
  /\ mode = "idle"
  /\ \E tasks_ \in WorkLists :
       /\ works' = tasks_
       /\ CommitEngine(mapDelegate(Fresh(tasks_), tasks_, 1))
  /\ mode' = "delegateParallel"
  /\ UNCHANGED <<eventHandlers, now, ncalls, context, propagate, returned>>
  /\ UNCHANGED <<planVars, regVars, decVars, runVars>>

\* Promise.all of the delegate promises fulfils
delegateParallelFulfilled ==
  /\ mode = "delegateParallel"
  /\ returned = None
  /\ promiseAll(item)
  /\ returned' = Some(resultsOf(results))
  /\ UNCHANGED <<storeVars, planVars, regVars, decVars, runVars>>
  /\ UNCHANGED <<mode, works, item, results, dispatch, context, propagate>>

\* delegateSequential(tasks, contextPropagation) up to its first await, or to its
\* end for an empty list
delegateSequential ==
  /\ mode = "idle"
  /\ \E tasks_ \in WorkLists, contextPropagation \in BOOLEAN :
       /\ works' = tasks_
       /\ propagate' = contextPropagation
       /\ IF tasks_ = <<>>
          THEN /\ CommitEngine(Fresh(tasks_))
               /\ returned' = Some(<<>>)
          ELSE /\ CommitEngine(iteration(Fresh(tasks_), tasks_, 1, {}, contextPropagation))
               /\ UNCHANGED returned
  /\ mode' = "delegateSequential"
  /\ context' = {}
  /\ UNCHANGED <<eventHandlers, now, ncalls>>
  /\ UNCHANGED <<planVars, regVars, decVars, runVars>>

\* delegateSequential resumes after await this.delegate(enrichedTask): it pushes
\* the result, accumulates the context and enters the next iteration or returns
delegateSequentialResumes ==
  /\ mode = "delegateSequential"
  /\ returned = None
  /\ \E k \in DOMAIN item :
       /\ item[k].state = "settled"
       /\ \A j \in 1..(k - 1) : item[j].state = "collected"
       /\ LET pushed == [Engine EXCEPT !.item[k].state = "collected"]
              \* results.length - 1 after the push
              accumulatedContext == accumulated(context, results[k][1], k - 1)
          IN /\ context' = accumulatedContext
             /\ IF k = Len(works)
                THEN /\ CommitEngine(pushed)
                     /\ returned' = Some(resultsOf(results))
                ELSE /\ CommitEngine(iteration(pushed, works, k + 1, accumulatedContext,
                                               propagate))
                     /\ UNCHANGED returned
  /\ UNCHANGED <<eventHandlers, now, ncalls, mode, works, propagate>>
  /\ UNCHANGED <<planVars, regVars, decVars, runVars>>

\* fetch answers for item i: SparkAgentClient.execute resumes after its await
sparkAgentResumes ==
  /\ \E i \in DOMAIN item : \E response \in SparkResponses(i) :
       /\ item[i].state = "inflight"
       /\ LET internalTask == item[i].internalTask[1]
          IN IF response.ok
             THEN /\ Commit(finish(Store, internalTask, Some(response)))
                  /\ results' = [results EXCEPT ![i] =
                       Some([success |-> TRUE, taskId |-> Some(internalTask),
                             output |-> response.output, error |-> None])]
             ELSE LET thrown == Error(Some(<<"Spark Agent error: ", response.text[1]>>))
                      errorMessage == messageOf(thrown, "Unknown error")
                  IN /\ Commit(error(Store, internalTask, errorMessage))
                     /\ results' = [results EXCEPT ![i] =
                          Some([success |-> FALSE, taskId |-> Some(internalTask),
                                output |-> None, error |-> Some(errorMessage)])]
       /\ item' = [item EXCEPT ![i].state = "settled"]
  /\ UNCHANGED <<eventHandlers, now, ncalls, mode, works, dispatch, context, propagate, returned>>
  /\ UNCHANGED <<planVars, regVars, decVars, runVars>>

NextOrchestrator ==
  \/ CallDelegate
  \/ delegateFulfilled
  \/ delegateParallel
  \/ delegateParallelFulfilled
  \/ delegateSequential
  \/ delegateSequentialResumes
  \/ sparkAgentResumes

\* the example workflow subscribes a logging handler before it uses the orchestrator
InitOrchestrator ==
  /\ Untouched
  /\ eventHandlers = <<"observer">>
  /\ agents \in Registries
  /\ request = [id |-> "plan-1", actions |-> <<>>]

SpecOrchestrator == InitOrchestrator /\ [][NextOrchestrator]_vars


\* ============================================================ plan decomposer
\* SubagentOrchestrator.decomposeForSubagents and the capability inference it
\* uses.  A string is the sequence of its characters.
MaxPlanLen == 3    \* actions of a plan handed to the decomposer (SpecDecompose)

Upper == <<"A", "B", "C", "D", "E", "F", "G", "H", "I", "J", "K", "L", "M", "N", "O", "P", "Q",
      "R", "S", "T", "U", "V", "W", "X", "Y", "Z">>
Lower == <<"a", "b", "c", "d", "e", "f", "g", "h", "i", "j", "k", "l", "m", "n", "o", "p", "q",
      "r", "s", "t", "u", "v", "w", "x", "y", "z">>

lowerCase(c) ==
  IF \E n \in DOMAIN Upper : Upper[n] = c
  THEN Lower[CHOOSE n \in DOMAIN Upper : Upper[n] = c]
  ELSE c

\* fault: the text is searched as it was typed
asTyped(text) == text

\* String.prototype.toLowerCase
toLowerCase(text) == [k \in DOMAIN text |-> lowerCase(text[k])]

\* String.prototype.includes
includes(text, word) ==
  \E i \in 0..(Len(text) - Len(word)) : SubSeq(text, i + 1, i + Len(word)) = word

\* a value of type unknown: <<"array", items>> | <<"string", s>> | <<"number", n>>
ArrayIsArray(v) == v # None /\ v[1][1] = "array"

\* private inferCapabilities(action: PlanAction): SubagentCapability[]
inferCapabilities(action) ==
  LET params == action.parameters
      text == toLowerCase(action.name \o <<" ">> \o action.description)
      capabilities ==
        (IF includes(text, <<"c", "o", "d", "e">>) \/ includes(text, <<"b", "u", "i", "l",
              "d">>) \/ includes(text, <<"d", "e", "v", "e", "l", "o", "p">>)
         THEN <<"code">> ELSE <<>>)
        \o (IF includes(text, <<"t", "e", "s", "t">>) \/ includes(text, <<"v", "e", "r", "i",
              "f", "y">>)
            THEN <<"testing">> ELSE <<>>)
        \o (IF includes(text, <<"d", "e", "s", "i", "g", "n">>) \/ includes(text, <<"u",
              "i">>) \/ includes(text, <<"s", "t", "y", "l", "e">>)
            THEN <<"aesthetics">> ELSE <<>>)
        \o (IF includes(text, <<"r", "e", "s", "e", "a", "r", "c", "h">>) \/ includes(text,
              <<"s", "e", "a", "r", "c", "h">>) \/ includes(text, <<"f", "i", "n", "d">>)
            THEN <<"research">> ELSE <<>>)
        \o (IF includes(text, <<"p", "r", "e", "s", "e", "n", "t", "a", "t", "i", "o",
              "n">>) \/ includes(text, <<"s", "l", "i", "d", "e">>) \/ includes(text, <<"p",
                    "p", "t">>)
            THEN <<"presentation">> ELSE <<>>)
        \o (IF includes(text, <<"i", "m", "a", "g", "e">>) \/ includes(text, <<"v", "i", "d",
              "e", "o">>) \/ includes(text, <<"a", "u", "d", "i", "o">>)
            THEN <<"multimodal">> ELSE <<>>)
  IN IF ArrayIsArray(params.capabilities)
     THEN params.capabilities[1][2]
     ELSE IF Len(capabilities) > 0 THEN capabilities ELSE <<"code">>

\* private actionToSubagentTask(action: PlanAction): SubagentTask
actionToSubagentTask(action) ==
  [id |-> action.id,
   name |-> action.name,
   prompt |-> action.description,
   capabilities |-> inferCapabilities(action),
   context |-> action.parameters,
   constraints |-> [maxDuration |-> action.parameters.timeout]]

\* fault: every action of the plan is converted
decomposeEveryAction(p) ==
  [k \in DOMAIN p.actions |-> actionToSubagentTask(p.actions[k])]

\* plan.actions.filter((action) => action.target.type === 'subagent')
\*             .map((action) => this.actionToSubagentTask(action))
decomposeForSubagents(p) ==
  LET filtered == SelectSeq(p.actions, LAMBDA action : action.target.type = "subagent")
  IN [k \in DOMAIN filtered |-> actionToSubagentTask(filtered[k])]

\* ------------------------------------------------ a client of the decomposer
NoParameters == [capabilities |-> None, timeout |-> None]
PlanActionValues ==
  {[id |-> "action-1", name |-> <<"B", "u", "i", "l", "d", " ", "U", "I">>,
        description |-> <<"C", "r", "e", "a", "t", "e", " ", "u", "s", "e", "r", " ", "i", "n",
              "t", "e", "r", "f", "a", "c", "e">>,
    target |-> [type |-> "subagent"], parameters |-> NoParameters],
   [id |-> "action-2", name |-> <<"C", "a", "l", "l", " ", "A", "P", "I">>,
         description |-> <<"F", "e", "t", "c", "h", " ", "d", "a", "t", "a">>,
    target |-> [type |-> "mcp"], parameters |-> NoParameters],
   [id |-> "action-3", name |-> <<"C", "h", "e", "c", "k", "o", "u", "t">>,
         description |-> <<"D", "e", "v", "e", "l", "o", "p", " ", "a", "n", "d", " ", "t",
               "e", "s", "t", " ", "t", "h", "e", " ", "c", "h", "e", "c", "k", "o", "u", "t",
                     " ", "f", "l", "o", "w">>,
    target |-> [type |-> "subagent"], parameters |-> NoParameters],
   [id |-> "action-4", name |-> <<"R", "E", "N", "D", "E", "R">>, description |-> <<"V", "I",
         "D", "E", "O", " ", "S", "L", "I", "D", "E">>,
    target |-> [type |-> "subagent"],
    parameters |-> [capabilities |-> None, timeout |-> Some(<<"number", 5000>>)]],
   [id |-> "action-5", name |-> <<"D", "e", "p", "l", "o", "y", " ", "t", "e">>,
         description |-> <<"s", "t", " ", "s", "i", "t", "e">>,
    target |-> [type |-> "subagent"], parameters |-> NoParameters],
   [id |-> "action-6", name |-> <<"W", "r", "i", "t", "e", " ", "t", "e", "s", "t", "s">>,
         description |-> <<"V", "e", "r", "i", "f", "y", " ", "t", "h", "e", " ", "b", "u",
               "i", "l", "d">>,
    target |-> [type |-> "subagent"],
    parameters |-> [capabilities |-> Some(<<"array", <<"research">>>>), timeout |-> None]],
   [id |-> "action-7", name |-> <<"W", "r", "i", "t", "e", " ", "t", "e", "s", "t", "s">>,
         description |-> <<"V", "e", "r", "i", "f", "y", " ", "t", "h", "e", " ", "b", "u",
               "i", "l", "d">>,
    target |-> [type |-> "subagent"],
    parameters |-> [capabilities |-> Some(<<"array", <<>>>>), timeout |-> None]],
   [id |-> "action-8", name |-> <<"D", "e", "s", "i", "g", "n">>, description |-> <<"F", "i",
         "n", "d", " ", "a", " ", "s", "t", "y", "l", "e">>,
    target |-> [type |-> "subagent"],
    parameters |-> [capabilities |-> Some(<<"string", "research">>), timeout |-> None]]}

MultiActionPlans ==
  [id : {"plan-1"}, actions : UNION {[1..n -> PlanActionValues] : n \in 0..MaxPlanLen}]

CallDecomposeForSubagents ==
  /\ decRet' = Some([call |-> "decomposeForSubagents", arg |-> request,
                     value |-> decomposeForSubagents(request)])
  /\ UNCHANGED request
  /\ UNCHANGED <<storeVars, planVars, regVars, orchVars, runVars>>

CallInferCapabilities ==
  /\ \E k \in DOMAIN request.actions :
       decRet' = Some([call |-> "inferCapabilities", arg |-> request.actions[k],
                       value |-> inferCapabilities(request.actions[k])])
  /\ UNCHANGED request
  /\ UNCHANGED <<storeVars, planVars, regVars, orchVars, runVars>>

NextDecompose ==
  \/ CallDecomposeForSubagents
  \/ CallInferCapabilities

InitDecompose ==
  /\ Untouched
  /\ eventHandlers = <<>>
  /\ agents = <<>>
  /\ request \in MultiActionPlans

SpecDecompose == InitDecompose /\ [][NextDecompose]_vars



\* =================================================== callers of one shared store
\* taskManager is a module-level singleton (lifecycle.ts): every PlannerAdapter
\* and every SparkAgentClient of the process writes to the same Map.  Each
\* caller runs one call; the calls interleave at their awaits.
SharedPlans ==
  {<<[type |-> "mcp", order |-> None]>>,
   <<[type |-> "mcp", order |-> Some(0)], [type |-> "mcp", order |-> None]>>,
   <<[type |-> "mcp", order |-> Some(0)], [type |-> "subagent", order |-> Some(1)]>>}

SharedTasks == {[capabilities |-> <<"code">>, context |-> {}]}

\* what fetch and the body of its response come to, for SparkAgentClient.execute:
\*   object:   ok, and response.json() resolves to an object
\*   null:     ok, and response.json() resolves to null (the body is the JSON text null)
\*   notOk:    response.ok is false
\*   rejected: fetch rejects (the backend cannot be reached)
FetchOutcomes == {"object", "null", "notOk", "rejected"}

MachineOf(c) ==
  [st |-> Store, act |-> runs[c].act, child |-> runs[c].child, calls |-> runs[c].calls]

\* PlannerAdapter.execute(plan) of caller c, up to its first await
executeBy(c, p) ==
  /\ runs[c].kind = "idle"
  /\ LET created == create(Store, [name |-> "plan", type |-> "plan", parentId |-> None,
                                   metadata |-> Some(<<"planId", "p">>)])
         blank == [IdleRun EXCEPT !.kind = "plan", !.plan = p,
                                  !.act = [i \in DOMAIN p |-> "unlaunched"],
                                  !.child = [i \in DOMAIN p |-> None],
                                  !.answer = [i \in DOMAIN p |-> None]]
     IN IF created.thrown
        THEN /\ Commit(created)
             /\ runs' = [runs EXCEPT ![c] = [blank EXCEPT !.phase = "raised",
                                                          !.raised = Some(HandlerError)]]
        ELSE LET parent == created.ret[2].id
                 started == start(created, parent)
                 actionGroups == groupByOrder(p)
                 m0 == [st |-> started, act |-> blank.act, child |-> blank.child,
                        calls |-> <<>>]
                 m == IF actionGroups = <<>>
                      THEN [m0 EXCEPT !.st = finish(started, parent, Some("completed"))]
                      ELSE map(m0, p, actionGroups[1], 1, parent)
             IN /\ Commit(m.st)
                /\ runs' = [runs EXCEPT ![c] =
                     [blank EXCEPT !.phase = IF actionGroups = <<>> THEN "returned"
                                             ELSE "waiting",
                                   !.groups = actionGroups,
                                   !.parentId = Some(parent),
                                   !.act = m.act, !.child = m.child, !.calls = m.calls]]
  /\ UNCHANGED <<eventHandlers, now, ncalls>>
  /\ UNCHANGED <<planVars, regVars, orchVars, decVars>>

\* mcpClient.executeAction answers for action i of caller c
respondTo(c, i, result) ==
  /\ runs[c].kind = "plan"
  /\ runs[c].act[i] = "inflight"
  /\ IF result.success
     THEN /\ Commit(finish(Store, runs[c].child[i][1], result.data))
          /\ runs' = [runs EXCEPT ![c].answer[i] = Some(result),
                                  ![c].act[i] = "fulfilled"]
     ELSE LET thrown == Error(result.error)
          IN /\ Commit(error(Store, runs[c].child[i][1],
                             messageOf(thrown, "Action execution failed")))
             /\ runs' = [runs EXCEPT
                  ![c].answer[i] = Some(result),
                  ![c].act[i] = "rejected",
                  ![c].rejection = IF runs[c].phase = "waiting" /\ @ = None
                                   THEN Some(thrown) ELSE @]
  /\ UNCHANGED <<eventHandlers, now, ncalls>>
  /\ UNCHANGED <<planVars, regVars, orchVars, decVars>>

\* Promise.all of the bucket caller c awaits fulfils
bucketFulfilledFor(c) ==
  /\ runs[c].kind = "plan"
  /\ runs[c].phase = "waiting"
  /\ \A k \in 1..Len(runs[c].groups[1]) : runs[c].act[runs[c].groups[1][k]] = "fulfilled"
  /\ LET rest == Tail(runs[c].groups)
         m == IF rest = <<>>
              THEN [MachineOf(c) EXCEPT
                      !.st = finish(Store, runs[c].parentId[1], Some("completed"))]
              ELSE map(MachineOf(c), runs[c].plan, rest[1], 1, runs[c].parentId[1])
     IN /\ Commit(m.st)
        /\ runs' = [runs EXCEPT ![c].groups = rest,
                                ![c].phase = IF rest = <<>> THEN "returned" ELSE "waiting",
                                ![c].act = m.act, ![c].child = m.child, ![c].calls = m.calls]
  /\ UNCHANGED <<eventHandlers, now, ncalls>>
  /\ UNCHANGED <<planVars, regVars, orchVars, decVars>>

\* Promise.all of the bucket caller c awaits rejects
bucketRejectedFor(c) ==
  /\ runs[c].kind = "plan"
  /\ runs[c].phase = "waiting"
  /\ runs[c].rejection # None
  /\ Commit(error(Store, runs[c].parentId[1],
                  messageOf(runs[c].rejection[1], "Plan execution failed")))
  /\ runs' = [runs EXCEPT ![c].phase = "raised", ![c].raised = runs[c].rejection]
  /\ UNCHANGED <<eventHandlers, now, ncalls>>
  /\ UNCHANGED <<planVars, regVars, orchVars, decVars>>

\* SparkAgentClient.execute(task) of caller c, up to its await of fetch
sparkExecuteBy(c, task) ==
  /\ runs[c].kind = "idle"
  /\ LET created == create(Store, [name |-> "Spark", type |-> "subagent", parentId |-> None,
                                   metadata |-> Some(<<"spark-agent", task.capabilities>>)])
         internalTask == created.ret[2].id
     IN \* create and start stand before the try: what a subscriber throws leaves execute
        IF created.thrown
        THEN /\ Commit(created)
             /\ runs' = [runs EXCEPT ![c] = [IdleRun EXCEPT !.kind = "spark",
                                                            !.phase = "raised",
                                                            !.raised = Some(HandlerError)]]
        ELSE /\ Commit(start(created, internalTask))
             /\ runs' = [runs EXCEPT ![c] = [IdleRun EXCEPT !.kind = "spark",
                                                            !.phase = "waiting",
                                                            !.internalTask = Some(internalTask)]]
  /\ UNCHANGED <<eventHandlers, now, ncalls>>
  /\ UNCHANGED <<planVars, regVars, orchVars, decVars>>

\* fault: the task is marked with the fallback text, the result with the message
sparkSettleLosesMessage(st, internalTask, outcome) ==
  LET failed(from, message) ==
        [st |-> error(from, internalTask, "Unknown error"),
         result |-> [success |-> FALSE, taskId |-> Some(internalTask), output |-> None,
                     error |-> Some(message)]]
  IN CASE outcome = "object" ->
            [st |-> finish(st, internalTask, Some("body")),
             result |-> [success |-> TRUE, taskId |-> Some(internalTask),
                         output |-> Some("o"), error |-> None]]
       [] outcome = "null" ->
            failed(finish(st, internalTask, None),
                   messageOf(Error(Some("Cannot read properties of null")), "Unknown error"))
       [] outcome = "notOk" ->
            failed(st, messageOf(Error(Some("Spark Agent error: e")), "Unknown error"))
       [] outcome = "rejected" ->
            failed(st, messageOf(Error(Some("fetch failed")), "Unknown error"))

\* SparkAgentClient.execute from the answer of fetch to its return: the try
\* block and its catch
sparkSettle(st, internalTask, outcome) ==
  LET failed(from, message) ==
        [st |-> error(from, internalTask, message),
         result |-> [success |-> FALSE, taskId |-> Some(internalTask), output |-> None,
                     error |-> Some(message)]]
  IN CASE outcome = "object" ->
            [st |-> finish(st, internalTask, Some("body")),
             result |-> [success |-> TRUE, taskId |-> Some(internalTask),
                         output |-> Some("o"), error |-> None]]
       \* finish(internalTask.id, null) has run when result.output throws a
       \* TypeError inside the try; the catch then marks the same task
       [] outcome = "null" ->
            failed(finish(st, internalTask, None),
                   messageOf(Error(Some("Cannot read properties of null")), "Unknown error"))
       [] outcome = "notOk" ->
            failed(st, messageOf(Error(Some("Spark Agent error: e")), "Unknown error"))
       [] outcome = "rejected" ->
            failed(st, messageOf(Error(Some("fetch failed")), "Unknown error"))

\* fetch settles for caller c: SparkAgentClient.execute resumes and returns
sparkAnswers(c, outcome) ==
  /\ runs[c].kind = "spark"
  /\ runs[c].phase = "waiting"
  /\ LET settled == sparkSettle(Store, runs[c].internalTask[1], outcome)
     IN /\ Commit(settled.st)
        /\ runs' = [runs EXCEPT ![c].phase = "returned", ![c].result = Some(settled.result)]
  /\ UNCHANGED <<eventHandlers, now, ncalls>>
  /\ UNCHANGED <<planVars, regVars, orchVars, decVars>>

NextShared ==
  \/ \E c \in Callers : \E p \in SharedPlans : executeBy(c, p)
  \/ \E c \in Callers : \E i \in DOMAIN runs[c].act : \E result \in MCPResponses(i) : respondTo(c, i, result)
  \/ \E c \in Callers : bucketFulfilledFor(c)
  \/ \E c \in Callers : bucketRejectedFor(c)
  \/ \E c \in Callers : \E task \in SharedTasks : sparkExecuteBy(c, task)
  \/ \E c \in Callers : \E outcome \in FetchOutcomes : sparkAnswers(c, outcome)

\* the example workflow subscribes a logging handler before it runs anything
InitShared ==
  /\ Untouched
  /\ eventHandlers = <<"observer">>
  /\ agents = <<>>
  /\ request = [id |-> "plan-1", actions |-> <<>>]

SpecShared == InitShared /\ [][NextShared]_vars


\* ============================================ the executor and the orchestrator
\* One process holds a PlannerAdapter and a SubagentOrchestrator on the same
\* taskManager; its client runs a plan or makes a call on the orchestrator.
NextCore ==
  \/ mode = "idle" /\ \E p \in FairPlans : execute(p)
  \/ \E i \in DOMAIN act : \E result \in MCPResponses(i) : respond(i, result)
  \/ bucketFulfilled
  \/ bucketRejected
  \/ phase = "idle" /\ CallDelegate
  \/ delegateFulfilled
  \/ phase = "idle" /\ delegateParallel
  \/ delegateParallelFulfilled
  \/ phase = "idle" /\ delegateSequential
  \/ delegateSequentialResumes
  \/ sparkAgentResumes

SpecCore == InitOrchestrator /\ [][NextCore]_vars

\* ==================================================================== claims
\* ------------------------------------------------ TaskManager (under Spec)

\* C1: a task's status only moves pending -> running -> completed or
\* pending -> running -> failed, whatever calls are made: no step takes a task
\* from pending to a terminal status or out of a terminal status.
C1_StatusMovesForward ==
  [][\A id \in 1..Len(tasks) :
       LET before == tasks[id].status
           after == tasks'[id].status
       IN \/ after = before
          \/ before = "pending" /\ after = "running"
          \/ before = "running" /\ after \in Terminal]_vars

\* C2: once a task is completed or failed, no later call changes its status,
\* result, error, metadata, parentId, startedAt or completedAt.
C2_TerminalIsFrozen ==
  [][\A id \in 1..Len(tasks) :
       tasks[id].status \in Terminal =>
         /\ tasks'[id].status = tasks[id].status
         /\ tasks'[id].result = tasks[id].result
         /\ tasks'[id].error = tasks[id].error
         /\ tasks'[id].metadata = tasks[id].metadata
         /\ tasks'[id].parentId = tasks[id].parentId
         /\ tasks'[id].startedAt = tasks[id].startedAt
         /\ tasks'[id].completedAt = tasks[id].completedAt]_vars

\* the event kind each mutator announces
C8_Kind(op) ==
  CASE op = "create" -> "created"
    [] op = "start" -> "started"
    [] op = "update" -> "updated"
    [] op = "finish" -> "finished"
    [] op = "error" -> "error"

\* the handler invocations that delivered the event of the n-th mutation
DeliveriesOf(n) == SelectSeq(delivered, LAMBDA d : d.seq = n)

\* C8: every mutation of a known task is announced exactly once to every
\* subscriber of that moment, in subscription order, by the time the call is
\* over; the event has the mutator's kind and carries the record as stored by
\* that mutation.
C8_EveryCallDelivers ==
  \A n \in 1..Len(mutations) :
    LET got == DeliveriesOf(n)
        subs == mutations[n].subs
    IN /\ Len(got) = Len(subs)
       /\ \A k \in 1..Len(got) :
            /\ got[k].handler = subs[k]
            /\ got[k].event.type = C8_Kind(mutations[n].op)
            /\ got[k].event.task = mutations[n].task

\* C9: each subscriber sees the events about one task in the order in which
\* the mutations were applied to that task, whatever the handlers do.
C9_DeliveryFollowsMutationOrder ==
  \A a, b \in 1..Len(delivered) :
    (/\ a < b
     /\ delivered[a].handler = delivered[b].handler
     /\ mutations[delivered[a].seq].id = mutations[delivered[b].seq].id)
    => delivered[a].seq <= delivered[b].seq

\* C10: a handler that throws neither keeps the handlers subscribed after it
\* from receiving the event nor makes the mutating call raise.
C10_ThrowingHandlerIsIsolated ==
  /\ ret # <<"raised">>
  /\ \A n \in 1..Len(mutations) :
       \A k \in 1..Len(mutations[n].subs) :
         mutations[n].subs[k] = "thrower" =>
           \A j \in (k + 1)..Len(mutations[n].subs) :
             \E d \in 1..Len(delivered) :
               delivered[d].seq = n /\ delivered[d].handler = mutations[n].subs[j]

\* ------------------------------------------- PlannerAdapter (under SpecPlan)
Label(i) == IF plan[1][i].order = None THEN 0 ELSE plan[1][i].order[1]
Launched(i) == child[i] # None
Settled(i) == act[i] \in {"fulfilled", "rejected"}
ChildOf(i) == tasks[child[i][1]]
Parent == tasks[parentId[1]]
HasCall(i, backend) ==
  \E c \in 1..Len(calls) : calls[c].action = i /\ calls[c].backend = backend

\* C3: buckets run in ascending order of their label, a missing order counting
\* as 0: an action has a child task only when every action with a smaller label
\* has settled (and was launched before it), and the actions of one bucket are
\* launched together, each tool call of the bucket being in flight before any
\* answer of the bucket is handled.
C3_BucketsInAscendingOrder ==
  plan # None =>
    \A i, j \in DOMAIN act :
      /\ (Label(i) < Label(j) /\ Launched(j)) =>
           /\ Launched(i)
           /\ Settled(i)
           /\ child[i][1] < child[j][1]
      /\ Label(i) = Label(j) =>
           /\ Launched(i) <=> Launched(j)
           /\ (Launched(i) /\ plan[1][j].type = "mcp") => HasCall(j, "mcp")

\* C3 witness: a bucket of two tool calls, one without order and one with order
\* 0, has run and a bucket with a larger label has been launched after it.
C3_Witness ==
  /\ plan # None
  /\ \E i, j, k \in DOMAIN act :
       /\ plan[1][i].order = None /\ plan[1][j].order = Some(0)
       /\ plan[1][i].type = "mcp" /\ plan[1][j].type = "mcp"
       /\ Label(k) > 0 /\ Launched(k)

\* the error message of the child task that failed first
FirstFailure ==
  LET failures == {n \in 1..Len(mutations) :
                     mutations[n].op = "error" /\ mutations[n].id # parentId[1]}
      first == CHOOSE n \in failures : \A m \in failures : n <= m
  IN mutations[first].task.error

\* C4: when an action fails, its child task is failed with the message the
\* backend gave, no action of a later bucket ever gets a child task, execute
\* does not return normally, and once execute has raised the parent task is
\* failed with the message of the failure that came first.
C4_FailureStopsThePlan ==
  plan # None =>
    /\ \A i \in DOMAIN act :
         act[i] = "rejected" =>
           /\ ChildOf(i).status = "failed"
           /\ answer[i][1].error # None => ChildOf(i).error = answer[i][1].error
           /\ \A j \in DOMAIN act : Label(j) > Label(i) => ~Launched(j)
           /\ phase # "returned"
    /\ phase = "raised" =>
         /\ \E i \in DOMAIN act : act[i] = "rejected"
         /\ Parent.status = "failed"
         /\ Parent.error = FirstFailure

\* C4 witness: execute has raised after two actions of one bucket failed, and
\* a later bucket was left unstarted.
C4_Witness ==
  /\ phase = "raised"
  /\ \E i, j, k \in DOMAIN act :
       /\ i # j /\ act[i] = "rejected" /\ act[j] = "rejected"
       /\ Label(k) > Label(i) /\ ~Launched(k)

\* C5: when execute has returned normally the parent task is completed with
\* the completion marker and every child task is completed with the output its
\* backend returned; the parent is never completed while a child task is
\* pending, running or failed.
C5_ReturnMeansChildrenCompleted ==
  plan # None =>
    /\ phase = "returned" =>
         /\ Parent.status = "completed"
         /\ Parent.result = Some("completed")
         /\ \A i \in DOMAIN act :
              /\ Launched(i)
              /\ ChildOf(i).status = "completed"
              /\ answer[i] # None
              /\ ChildOf(i).result = answer[i][1].data
    /\ Parent.status = "completed" =>
         \A id \in 1..Len(tasks) :
           tasks[id].parentId = parentId => tasks[id].status = "completed"

\* the mutations applied to task id, as positions in the history
MutationsOf(id, op) ==
  {n \in 1..Len(mutations) : mutations[n].id = id /\ mutations[n].op = op}

\* C6: execute creates one parent task of type plan and starts it before any
\* child task exists; every launched action has exactly one child task, linked
\* to that parent, created once and started once before the backend is called;
\* when execute has returned, every action has its child task.
C6_OneParentOneChildPerAction ==
  phase # "idle" =>
    /\ {id \in 1..Len(tasks) : tasks[id].type = "plan"} = {parentId[1]}
    /\ mutations[1].op = "create" /\ mutations[1].id = parentId[1]
    /\ mutations[2].op = "start" /\ mutations[2].id = parentId[1]
    /\ MutationsOf(parentId[1], "create") = {1}
    /\ MutationsOf(parentId[1], "start") = {2}
    /\ \A i \in DOMAIN act :
         LET kids == {id \in 1..Len(tasks) : tasks[id].metadata = Some(<<"actionId", i>>)}
         IN IF Launched(i)
            THEN /\ kids = {child[i][1]}
                 /\ ChildOf(i).parentId = parentId
                 /\ Cardinality(MutationsOf(child[i][1], "create")) = 1
                 /\ Cardinality(MutationsOf(child[i][1], "start")) = 1
                 /\ \A c \in 1..Len(calls) :
                      calls[c].action = i =>
                        \E n \in MutationsOf(child[i][1], "start") : n <= calls[c].at
            ELSE kids = {}
    /\ Len(tasks) = 1 + Cardinality({i \in DOMAIN act : Launched(i)})
    /\ phase = "returned" => \A i \in DOMAIN act : Launched(i)

\* C6 witness: execute has returned for a plan of a tool call and a delegated
\* action, each with its child task.
C6_Witness ==
  /\ phase = "returned"
  /\ \E i, j \in DOMAIN act :
       /\ plan[1][i].type = "mcp" /\ plan[1][j].type = "subagent"
       /\ HasCall(i, "mcp") /\ Launched(j)

\* C7: every launched action is dispatched by its target type: an mcp action
\* to the tool-call backend (mcpClient), a subagent action to the delegation
\* engine (SubagentOrchestrator.delegate).
C7_DispatchByTargetType ==
  plan # None =>
    \A i \in DOMAIN act :
      Launched(i) =>
        /\ plan[1][i].type = "mcp" => HasCall(i, "mcp")
        /\ plan[1][i].type = "subagent" => HasCall(i, "delegate")


\* ----------------------------------------- SubagentRegistry (under SpecRegistry)
\* how many entries of the required list the descriptor offers
Satisfied(agent, required) == Len(SelectSeq(required, LAMBDA c : c \in agent.capabilities))
Registered == {agents[k] : k \in 1..Len(agents)}
LastQuery == regRet[1]
Queried == regRet # None /\ LastQuery.call = "findBestMatch"

\* C16: for every registry content and every required-capability list a
\* findBestMatch call is made with, it returns a registered descriptor whose count of satisfied
\* required capabilities is greater than zero and not exceeded by any registered
\* descriptor, and it returns nothing exactly when every registered descriptor
\* satisfies none of the required capabilities.
C16_BestMatchIsMaximal ==
  Queried =>
    LET required == LastQuery.arg
        found == LastQuery.value
    IN /\ found = None <=> \A a \in Registered : Satisfied(a, required) = 0
       /\ found # None =>
            /\ found[1] \in Registered
            /\ Satisfied(found[1], required) > 0
            /\ \A a \in Registered : Satisfied(a, required) <= Satisfied(found[1], required)

\* the second descriptor in iteration order wins on score over a first one that
\* also scores, and a query with nothing to match finds nothing
C16_Witness ==
  /\ Queried
  /\ Len(agents) = 2
  /\ LastQuery.value = Some(agents[2])
  /\ Satisfied(agents[1], LastQuery.arg) = 1
  /\ Satisfied(agents[2], LastQuery.arg) = 2

\* position in regLog of the latest register call for the id
RegisteredAt(id) ==
  CHOOSE n \in 1..Len(regLog) :
    /\ regLog[n].op = "register" /\ regLog[n].id = id
    /\ \A m \in (n + 1)..Len(regLog) : ~(regLog[m].op = "register" /\ regLog[m].id = id)

\* position in regLog of the register call that put the id into the registry:
\* the earliest one that no unregister of the id follows
InsertedAt(id) ==
  CHOOSE n \in 1..Len(regLog) :
    /\ regLog[n].op = "register" /\ regLog[n].id = id
    /\ \A m \in (n + 1)..Len(regLog) : ~(regLog[m].op = "unregister" /\ regLog[m].id = id)
    /\ \A m \in 1..(n - 1) :
         regLog[m].op = "register" /\ regLog[m].id = id =>
           \E u \in (m + 1)..(n - 1) : regLog[u].op = "unregister" /\ regLog[u].id = id

\* the registered descriptors that share the highest score, when it is not zero
Best(required) ==
  {a \in Registered : /\ Satisfied(a, required) > 0
                      /\ \A b \in Registered : Satisfied(b, required) <= Satisfied(a, required)}

Entries(ags, id) == {k \in 1..Len(ags) : ags[k].id = id}
Described(ags, id) == {ags[k] : k \in Entries(ags, id)}

\* C18: every register / unregister call leaves at most one descriptor per id;
\* after register(d) the registry holds d, and only d, under d.id, whether or
\* not the id was present; unregister(id) returns true exactly when the id was
\* present and removes it; neither call changes a descriptor under another id.
C18_OneDescriptorPerId ==
  [][regLog' # regLog =>
       LET call == regLog'[Len(regLog')]
       IN /\ \A id \in AgentIds : Cardinality(Entries(agents', id)) <= 1
          /\ \A id \in AgentIds \ {call.id} : Described(agents', id) = Described(agents, id)
          /\ IF call.op = "register"
             THEN /\ Described(agents', call.id) = {call.agent[1]}
                  /\ get(agents', call.id) = call.agent
                  /\ Cardinality(Entries(agents', call.id)) = 1
             ELSE /\ regRet'[1].value = <<Entries(agents, call.id) # {}>>
                  /\ Described(agents', call.id) = {}]_vars

\* an id registered twice in a row with different descriptors, beside another id
C18_Witness ==
  /\ Len(regLog) = 3
  /\ regLog[1].op = "register" /\ regLog[2].op = "register" /\ regLog[3].op = "register"
  /\ regLog[2].id = regLog[3].id /\ regLog[2].agent # regLog[3].agent
  /\ regLog[1].id # regLog[2].id
  /\ Len(agents) = 2
  /\ agents[2] = regLog[3].agent[1]


\* ------------------------------------- SubagentOrchestrator (under SpecOrchestrator)
Items == DOMAIN works
Returned == returned[1]
\* the task sparkAgent.execute tracks item i with
InternalTask(i) == tasks[item[i].internalTask[1]]
HasKey(ctx, key) == \E e \in ctx : e.key = key
\* position in the mutation history of the mutation op of task id (0 if none)
MutationAt(id, op) ==
  IF \E n \in DOMAIN mutations : mutations[n].id = id /\ mutations[n].op = op
  THEN CHOOSE n \in DOMAIN mutations : mutations[n].id = id /\ mutations[n].op = op
  ELSE 0

\* r is the outcome of works[i]: a failure without a task when delegate called no
\* backend for the item, and otherwise what the backend answered for the task
\* that was opened for this item
OutcomeOf(i, r) ==
  IF item[i].internalTask = None
  THEN ~r.success /\ r.taskId = None /\ r.error # None
  ELSE /\ r.taskId = item[i].internalTask
       /\ InternalTask(i).metadata = Some(<<"spark-agent", works[i].capabilities>>)
       /\ \A j \in Items \ {i} : item[j].internalTask # item[i].internalTask
       /\ InternalTask(i).status \in Terminal
       /\ InternalTask(i).status = "completed" =>
            /\ r.success
            /\ r.output = InternalTask(i).result[1].output
            /\ r.output \in {Some(SparkOutput[i]), Some("")}
       /\ InternalTask(i).status = "failed" =>
            /\ ~r.success
            /\ r.error = InternalTask(i).error
            /\ r.error = Some(<<"Spark Agent error: ", ErrorText[i]>>)

\* C11: delegateParallel(works) returns only after every item has settled;
\* the array it returns has the length of works and entry i is the outcome of
\* works[i]: a failed item is an entry with success = false, and every entry
\* is what that item's own backend call answered, whatever the other items did.
C11_ParallelReturnsEveryOutcome ==
  mode = "delegateParallel" /\ returned # None =>
    /\ Len(Returned) = Len(works)
    /\ \A i \in Items : item[i].state = "settled" /\ results[i] # None
    /\ \A i \in Items : OutcomeOf(i, Returned[i])

\* three items of which the second failed first, and the other two then succeeded
C11_Witness ==
  /\ mode = "delegateParallel" /\ returned # None
  /\ Len(works) = 3
  /\ Returned[1].success /\ ~Returned[2].success /\ Returned[3].success
  /\ item[2].internalTask # None
  /\ \A i \in {1, 3} :
       /\ Returned[i].output = Some(SparkOutput[i])
       /\ MutationAt(item[2].internalTask[1], "error")
            < MutationAt(item[i].internalTask[1], "finish")

\* C12: delegateSequential(works) dispatches item i+1 only after item i has
\* settled (so at most one item is in flight, and the task of a later item is
\* created after the task of an earlier one reached its end), goes on after a
\* failed item, and returns one result per input item, in input order.
C12_SequentialOneAtATime ==
  mode = "delegateSequential" =>
    /\ \A i \in Items \ {1} : item[i].state # "undispatched" => item[i - 1].state = "collected"
    /\ Cardinality({i \in Items : item[i].state = "inflight"}) <= 1
    /\ \A n \in DOMAIN dispatch : dispatch[n].item = n
    /\ \A i \in Items, j \in Items :
         i < j /\ item[i].internalTask # None /\ item[j].internalTask # None =>
           /\ MutationAt(item[i].internalTask[1], "finish")
                + MutationAt(item[i].internalTask[1], "error") > 0
           /\ MutationAt(item[i].internalTask[1], "finish")
                + MutationAt(item[i].internalTask[1], "error")
                < MutationAt(item[j].internalTask[1], "create")
    /\ returned # None =>
         /\ Len(Returned) = Len(works)
         /\ Len(dispatch) = Len(works)
         /\ \A i \in Items : item[i].state = "collected" /\ OutcomeOf(i, Returned[i])

\* the first item failed at its backend, and the two after it were still
\* dispatched and succeeded
C12_Witness ==
  /\ mode = "delegateSequential" /\ returned # None
  /\ Len(works) = 3
  /\ ~Returned[1].success /\ Returned[1].taskId # None
  /\ Returned[2].success /\ Returned[3].success

\* C13: in delegateSequential with propagateContext, the context passed to
\* item j holds, for every earlier item i < j that succeeded, the key
\* result_i (i counted from 0) with that item's output, and the loop adds no
\* key result_i for an earlier item that failed.
C13_ContextHoldsEverySuccess ==
  mode = "delegateSequential" /\ propagate =>
    \A n \in DOMAIN dispatch : \A i \in 1..(dispatch[n].item - 1) :
      IF results[i][1].success
      THEN [key |-> resultKey(i - 1), value |-> results[i][1].output[1]] \in dispatch[n].context
      ELSE HasKey(dispatch[n].context, resultKey(i - 1)) =>
             HasKey(works[dispatch[n].item].context, resultKey(i - 1))

\* C14: a delegate call that finds no registered executor for the required
\* capabilities resolves with success = false and an error that names the
\* capabilities, invokes no executor and opens no task: every task, mutation and
\* event in the store belongs to an item an executor was found for, and after a
\* single such delegate call the store is as it was.
C14_NoExecutorNoTask ==
  /\ \A n \in DOMAIN dispatch :
       dispatch[n].resolved = None =>
         LET i == dispatch[n].item
         IN /\ results[i] # None
            /\ ~results[i][1].success
            /\ results[i][1].error = Some(<<"No subagent found", works[i].capabilities>>)
            /\ results[i][1].taskId = None
            /\ dispatch[n].invoked = None
            /\ item[i].internalTask = None
            /\ mode = "delegate" => tasks = <<>> /\ mutations = <<>> /\ delivered = <<>>
  /\ \A id \in DOMAIN tasks :
       \E n \in DOMAIN dispatch :
         dispatch[n].resolved # None /\ item[dispatch[n].item].internalTask = Some(id)
  /\ \A n \in DOMAIN delivered : delivered[n].event.task.id \in DOMAIN tasks

\* delegate has returned the failure for work that needs a capability the only
\* registered executor does not have, and the store is empty
C14_Witness ==
  /\ mode = "delegate" /\ returned # None
  /\ agents = <<TestAgent>>
  /\ works[1].capabilities = <<"research">>
  /\ dispatch[1].resolved = None
  /\ ~Returned.success
  /\ tasks = <<>> /\ delivered = <<>>

\* C15: whenever findBestMatch resolves an executor for a unit of work,
\* delegate invokes the execute contract of that executor, and the result it
\* returns is the result of that executor, whichever registered executor it is.
C15_ResolvedExecutorIsInvoked ==
  \A n \in DOMAIN dispatch :
    dispatch[n].resolved # None =>
      /\ dispatch[n].invoked = dispatch[n].resolved
      /\ item[dispatch[n].item].internalTask # None


\* ------------------------------------------------ TaskManager, continued (under Spec)
\* C19: every create call returns a task with status pending and with
\* startedAt and completedAt unset, whose id is the id of no task that was in
\* the store before; a task is stored under that id and no task that was in
\* the store is changed.
C19_CreateReturnsFreshPendingTask ==
  [][Len(mutations') > Len(mutations) /\ mutations'[Len(mutations) + 1].op = "create" =>
       /\ ret'[1] = "task"
       /\ ret'[2].status = "pending"
       /\ ret'[2].startedAt = None
       /\ ret'[2].completedAt = None
       /\ ret'[2].id \notin DOMAIN tasks
       /\ ret'[2].id \in DOMAIN tasks'
       /\ tasks'[ret'[2].id].id = ret'[2].id
       /\ \A id \in DOMAIN tasks : tasks'[id] = tasks[id]]_vars

\* the mutators applied to task id so far, in order
OpsOf(id) ==
  LET own == SelectSeq(mutations, LAMBDA m : m.id = id)
  IN [n \in DOMAIN own |-> own[n].op]

\* C20: a task that went through create and then start is running with
\* startedAt set; one that went through create, start and finish(result) is
\* completed, holds the result, and has completedAt >= startedAt >= createdAt;
\* one that went through create, start and error(message) is failed and its
\* error is the message.
C20_CreateStartFinish ==
  \A id \in DOMAIN tasks :
    LET task == tasks[id]
    IN /\ OpsOf(id) = <<"create", "start">> =>
            /\ task.status = "running"
            /\ task.startedAt # None
            /\ task.startedAt[1] >= task.createdAt
       /\ OpsOf(id) = <<"create", "start", "finish">> =>
            /\ task.status = "completed"
            /\ task.result \in Results
            /\ task.completedAt # None /\ task.startedAt # None
            /\ task.completedAt[1] >= task.startedAt[1]
            /\ task.startedAt[1] >= task.createdAt
       /\ OpsOf(id) = <<"create", "start", "error">> =>
            /\ task.status = "failed"
            /\ task.error # None /\ task.error[1] \in Messages
            /\ task.completedAt # None /\ task.startedAt # None
            /\ task.completedAt[1] >= task.startedAt[1]

\* a task created, started after the clock moved, and finished with a result
C20_Witness ==
  \E id \in DOMAIN tasks :
    /\ OpsOf(id) = <<"create", "start", "finish">>
    /\ tasks[id].status = "completed"
    /\ tasks[id].result = Some("r1")
    /\ tasks[id].startedAt[1] > tasks[id].createdAt


\* ids no task is stored under
UnknownIds == {0, Len(tasks) + 1}
\* what each mutator makes of the store when called with the id
CallsOn(id) ==
  {start(Store, id)}
    \cup {update(Store, id, progress) : progress \in Progress}
    \cup {finish(Store, id, result) : result \in Results}
    \cup {error(Store, id, message) : message \in Messages}

\* C21: in every reachable state, start, update, finish and error called with
\* an id that is not in the store return undefined, do not raise, deliver no
\* event and leave every stored task as it is.
C21_UnknownIdIsNoOp ==
  \A id \in UnknownIds : \A st \in CallsOn(id) :
    /\ st.ret = <<"undefined">>
    /\ ~st.thrown
    /\ st.delivered = delivered
    /\ st.mutations = mutations
    /\ st.tasks = tasks

\* a throwing handler made create raise, and the mutator called after that
\* returned undefined and delivered nothing
C21_Witness ==
  /\ ret = <<"undefined">>
  /\ Len(tasks) >= 1
  /\ \E n \in DOMAIN delivered : delivered[n].handler = "thrower"
  /\ \A n \in DOMAIN delivered : delivered[n].event.type = "created"


\* the timestamps of a task that are set are in order
Ordered(task) ==
  /\ task.startedAt # None => task.createdAt <= task.startedAt[1]
  /\ task.completedAt # None => task.createdAt <= task.completedAt[1]
  /\ task.startedAt # None /\ task.completedAt # None =>
       task.startedAt[1] <= task.completedAt[1]

\* C22: with the clock never going back, every stored task has
\* createdAt <= startedAt <= completedAt for those of the three that are
\* set; startedAt changes only in a step that takes the task from pending to
\* running, and completedAt only in a step that takes it from a status that is
\* not terminal to completed or failed.
C22_TimestampsOrderedAndWrittenOnce ==
  [][\A id \in DOMAIN tasks' :
       /\ Ordered(tasks'[id])
       /\ id \in DOMAIN tasks =>
            /\ tasks'[id].startedAt # tasks[id].startedAt =>
                 tasks[id].status = "pending" /\ tasks'[id].status = "running"
            /\ tasks'[id].completedAt # tasks[id].completedAt =>
                 tasks[id].status \notin Terminal /\ tasks'[id].status \in Terminal]_vars

\* C23: in every reachable state no task has both a result and an error; a
\* task with a result is completed and a task with an error is failed.
C23_ResultXorError ==
  \A id \in DOMAIN tasks :
    /\ ~(tasks[id].result # None /\ tasks[id].error # None)
    /\ tasks[id].result # None => tasks[id].status = "completed"
    /\ tasks[id].error # None => tasks[id].status = "failed"

\* the create calls made so far, in order
Created == SelectSeq(mutations, LAMBDA m : m.op = "create")

\* C24: after any sequence of operations, every id a create call returned is
\* retrievable with get, and getAll() lists as many tasks as were created, the
\* n-th of them being the task stored under the n-th id created.
C24_TasksAreNeverRemoved ==
  /\ Len(getAll(Store, None)) = Len(Created)
  /\ \A n \in DOMAIN Created :
       /\ getTask(Store, Created[n].task.id) # None
       /\ getAll(Store, None)[n] = getTask(Store, Created[n].task.id)[1]
  /\ \A n \in DOMAIN Created, m \in DOMAIN Created :
       n # m => Created[n].task.id # Created[m].task.id

\* two tasks, the first of which has been finished and then touched again
C24_Witness ==
  /\ Len(Created) = 2
  /\ Len(SelectSeq(mutations, LAMBDA m : m.id = 1)) >= 3
  /\ tasks[1].status = "completed"
  /\ getAll(Store, None)[2].status = "pending"

\* the keys of the tasks whose status is s, and the n-th smallest of them
KeysWith(s) == {k \in DOMAIN tasks : tasks[k].status = s}
NthKeyWith(s, n) ==
  CHOOSE k \in KeysWith(s) : Cardinality({j \in KeysWith(s) : j < k}) = n - 1

\* C25: for each status, getAll(status) holds exactly the stored tasks with
\* that status, in creation order; a task is therefore in exactly one of the
\* four filtered lists, whose lengths add up to the length of getAll().
C25_StatusFilterPartitions ==
  /\ \A s \in TaskStatus :
       LET listed == getAll(Store, Some(s))
       IN /\ Len(listed) = Cardinality(KeysWith(s))
          /\ \A n \in DOMAIN listed : listed[n] = tasks[NthKeyWith(s, n)]
  /\ Len(getAll(Store, Some("pending"))) + Len(getAll(Store, Some("running")))
       + Len(getAll(Store, Some("completed"))) + Len(getAll(Store, Some("failed")))
       = Len(getAll(Store, None))

\* the test: of two tasks one has been started; each filter lists one of them
C25_Witness ==
  /\ Len(tasks) = 2
  /\ getAll(Store, Some("pending")) = <<tasks[2]>>
  /\ getAll(Store, Some("running")) = <<tasks[1]>>
  /\ getAll(Store, Some("completed")) = <<>>

\* C26: after any sequence of start, update, finish and error calls, the
\* record stored under key k has id k, the id create returned for it.
C26_IdIsImmutable ==
  \A n \in DOMAIN Created :
    LET k == Created[n].task.id
    IN /\ getTask(Store, k) # None
       /\ getTask(Store, k)[1].id = k
       /\ tasks[k].id = k


\* ------------------------------------------------ findByCapability (under SpecRegistry)
\* the step is a findByCapability call
Finds == regRet' # None /\ regRet'[1].call = "findByCapability" /\ regLog' = regLog
Found == regRet'[1].value
\* the list holds the registered descriptors that carry the tag, each once, and
\* the call left the registry as it was
FoundExactly ==
  /\ {Found[k] : k \in 1..Len(Found)} = {a \in Registered : regRet'[1].arg[1] \in a.capabilities}
  /\ \A j, k \in 1..Len(Found) : Found[j] = Found[k] => j = k
  /\ agents' = agents

KeywordGroups ==
  {[tag |-> "code", words |-> {<<"c", "o", "d", "e">>, <<"b", "u", "i", "l", "d">>, <<"d", "e",
        "v", "e", "l", "o", "p">>}],
   [tag |-> "testing", words |-> {<<"t", "e", "s", "t">>, <<"v", "e", "r", "i", "f", "y">>}],
   [tag |-> "aesthetics", words |-> {<<"d", "e", "s", "i", "g", "n">>, <<"u", "i">>, <<"s",
         "t", "y", "l", "e">>}],
   [tag |-> "research", words |-> {<<"r", "e", "s", "e", "a", "r", "c", "h">>, <<"s", "e", "a",
         "r", "c", "h">>, <<"f", "i", "n", "d">>}],
   [tag |-> "presentation", words |-> {<<"p", "r", "e", "s", "e", "n", "t", "a", "t", "i", "o",
         "n">>, <<"s", "l", "i", "d", "e">>, <<"p", "p", "t">>}],
   [tag |-> "multimodal", words |-> {<<"i", "m", "a", "g", "e">>, <<"v", "i", "d", "e", "o">>,
         <<"a", "u", "d", "i", "o">>}]}
\* the character c is the lower-case letter l, in either case
Reads(c, l) == c = l \/ \E n \in DOMAIN Lower : Lower[n] = l /\ Upper[n] = c
\* the word occurs in the text, whatever the case of the text's letters
Occurs(word, text) ==
  \E i \in 1..Len(text) :
    /\ i + Len(word) - 1 <= Len(text)
    /\ \A j \in 1..Len(word) : Reads(text[i + j - 1], word[j])
\* the text that is searched: the name, a space, the description
TextOf(action) == action.name \o <<" ">> \o action.description
MatchedTags(action) ==
  {g.tag : g \in {h \in KeywordGroups : \E w \in h.words : Occurs(w, TextOf(action))}}
ExplicitList(action) ==
  /\ action.parameters.capabilities # None
  /\ action.parameters.capabilities[1][1] = "array"
LastCall == decRet[1]
Inferred == decRet # None /\ LastCall.call = "inferCapabilities"
Decomposed == decRet # None /\ LastCall.call = "decomposeForSubagents"

\* C27: capability inference returns the explicit capability list of the
\* action's parameters as it is when there is one; otherwise it returns exactly
\* the tags of the keyword groups with a word that occurs, in any case, in the
\* name and description, and the list <<"code">> when no group matches.
C27_InferCapabilities ==
  Inferred =>
    LET action == LastCall.arg
        value == LastCall.value
    IN IF ExplicitList(action)
       THEN value = action.parameters.capabilities[1][2]
       ELSE IF MatchedTags(action) = {}
            THEN value = <<"code">>
            ELSE {value[k] : k \in DOMAIN value} = MatchedTags(action)

\* an inference from a text in capitals that matched two groups, neither of them
\* the default
C27_Witness ==
  /\ Inferred
  /\ ~ExplicitList(LastCall.arg)
  /\ LastCall.arg.name = <<"R", "E", "N", "D", "E", "R">>
  /\ Len(LastCall.value) = 2
  /\ \A k \in DOMAIN LastCall.value : LastCall.value[k] # "code"

\* the positions of the plan's actions that are delegated
Delegated(p) == {k \in DOMAIN p.actions : p.actions[k].target.type = "subagent"}
\* the n-th of them, in the plan's order
NthDelegated(p, n) ==
  CHOOSE k \in Delegated(p) : Cardinality({j \in Delegated(p) : j < k}) = n - 1

\* C28: decomposeForSubagents(plan) returns one unit of work for each action
\* with a subagent target and none for an action with an mcp target, in the
\* plan's action order; each unit has the id and the name of its action and the
\* action's description as prompt; the plan is as it was before the call.
C28_DecomposeKeepsDelegatedActions ==
  [][decRet' # None /\ decRet'[1].call = "decomposeForSubagents" =>
       LET p == decRet'[1].arg
           units == decRet'[1].value
       IN /\ p = request /\ request' = request
          /\ Len(units) = Cardinality(Delegated(p))
          /\ \A n \in DOMAIN units :
               LET action == p.actions[NthDelegated(p, n)]
               IN /\ units[n].id = action.id
                  /\ units[n].name = action.name
                  /\ units[n].prompt = action.description]_vars

\* a plan with a tool-call action between two delegated ones, decomposed into
\* two units
C28_Witness ==
  /\ Decomposed
  /\ Len(request.actions) = 3
  /\ Delegated(request) = {1, 3}
  /\ request.actions[1].id # request.actions[3].id
  /\ Len(LastCall.value) = 2


\* ------------------------------------------------ execute and its caller (under SpecPlanSubscribed)
\* C30: execute raises to its caller only when an action of the bucket it was
\* waiting for has failed, and what it raises is the error of the action of
\* that bucket that failed first; a call that returned normally raised nothing.
C30_RaisesOnlyTheBucketsError ==
  plan # None =>
    /\ phase = "raised" =>
         /\ raised # None
         /\ groups # <<>>
         /\ \E k \in 1..Len(groups[1]) : act[groups[1][k]] = "rejected"
         /\ raised[1].isError
         /\ Some(raised[1].message) = FirstFailure
    /\ phase = "returned" => raised = None

\* ------------------------------------------------ unsubscribing (under Spec)
\* the list without its k-th entry
Without(hs, k) == [j \in 1..(Len(hs) - 1) |-> IF j < k THEN hs[j] ELSE hs[j + 1]]

\* C38: a call of the function onEvent returned takes exactly one subscription
\* out of the subscriber list, the one it was returned for; every other
\* subscription, a second subscription of the same handler function included,
\* stays where it was, in the same order.
C38_UnsubscribeRemovesOneSubscription ==
  [][Len(eventHandlers') < Len(eventHandlers) =>
       \E k \in 1..Len(eventHandlers) : eventHandlers' = Without(eventHandlers, k)]_vars

\* ------------------------------------------------ decomposed units (under SpecDecompose)
\* C40: every unit of work decomposeForSubagents returns has a non-empty
\* capability list, also when the action's parameters carry an explicit list,
\* so that findBestMatch finds an executor for it in a registry that holds one
\* covering every tag.
C40_UnitsNameACapability ==
  Decomposed =>
    \A n \in DOMAIN LastCall.value :
      /\ Len(LastCall.value[n].capabilities) > 0
      /\ findBestMatch(<<SparkAgentConfig>>, LastCall.value[n].capabilities) # None


\* ------------------------------------------------ availability (under SpecOrchestrator)
\* the registry with the availability of its descriptors replaced
Relabelled(status) == [k \in DOMAIN agents |-> [agents[k] EXCEPT !.status = status[k]]]
IdOf(found) == IF found = None THEN None ELSE Some(found[1].id)

\* C39: for every registry that differs from the present one only in the
\* availability of its descriptors, findBestMatch selects the same executor id
\* for every required-capability list (looked at before the orchestrator is
\* called; its calls leave the registry alone), and so does every delegate
\* call that was made.
C39_SelectionIgnoresAvailability ==
  \A status \in [DOMAIN agents -> SubagentStatus] :
    /\ mode = "idle" =>
         \A required \in RequiredLists :
           IdOf(findBestMatch(Relabelled(status), required))
             = IdOf(findBestMatch(agents, required))
    /\ \A d \in DOMAIN dispatch :
         dispatch[d].resolved =
           IdOf(findBestMatch(Relabelled(status), works[dispatch[d].item].capabilities))

\* a unit of work that was handed to the executor of a descriptor that
\* isAvailable reports as not available
C39_Witness ==
  \E d \in DOMAIN dispatch :
    /\ dispatch[d].resolved # None
    /\ ~isAvailable(agents, dispatch[d].resolved[1])
    /\ dispatch[d].invoked = Some("spark-agent")
    /\ item[dispatch[d].item].internalTask # None


\* ------------------------------------------------ a failing bucket (under SpecPlan)
\* C32: once execute has raised, the actions of the failed bucket that are
\* still in flight are left alone: their child tasks stay running while the
\* parent is failed, each of them ends completed with its backend's data or
\* failed with its backend's message when its backend answers, and no such
\* step changes the parent record.
C32_SiblingsOutliveTheFailure ==
  [][phase = "raised" =>
       /\ tasks'[parentId[1]] = tasks[parentId[1]]
       /\ Parent.status = "failed"
       /\ \A i \in DOMAIN act :
            /\ act[i] = "inflight" => ChildOf(i).status = "running"
            /\ (act[i] = "inflight" /\ act'[i] # "inflight") =>
                 /\ answer'[i] # None
                 /\ IF answer'[i][1].success
                    THEN /\ tasks'[child[i][1]].status = "completed"
                         /\ tasks'[child[i][1]].result = answer'[i][1].data
                    ELSE /\ tasks'[child[i][1]].status = "failed"
                         /\ tasks'[child[i][1]].error = answer'[i][1].error]_vars

\* the parent was failed while a sibling of the failed action was running, and
\* that sibling completed afterwards
C32_Witness ==
  /\ phase = "raised"
  /\ \E i \in DOMAIN act :
       /\ act[i] = "fulfilled"
       /\ \E n \in MutationsOf(parentId[1], "error"), m \in MutationsOf(child[i][1], "finish") :
            n < m

\* C35: when several actions of a bucket fail, the parent task is marked
\* failed once, with the message of the action that failed first; the record
\* the parent was given then is the one it keeps, error and completedAt
\* included, whatever fails afterwards.
C35_ParentFailsOnceWithFirstMessage ==
  plan # None =>
    /\ Cardinality(MutationsOf(parentId[1], "error")) = (IF phase = "raised" THEN 1 ELSE 0)
    /\ \A n \in MutationsOf(parentId[1], "error") :
         /\ mutations[n].task.error = FirstFailure
         /\ Parent = mutations[n].task
         /\ \A m \in (n + 1)..Len(mutations) : mutations[m].id # parentId[1]

\* two actions of one bucket failed, the second after the parent was marked
C35_Witness ==
  /\ phase = "raised"
  /\ \E i, j \in DOMAIN act :
       /\ i # j /\ act[i] = "rejected" /\ act[j] = "rejected"
       /\ \E n \in MutationsOf(parentId[1], "error"), m \in MutationsOf(child[j][1], "error") :
            n < m


\* ------------------------------------------------ callers of the shared store (under SpecShared)
\* C34: every task the plan executor or the Spark client created went through
\* create, then start, then at most one of finish and error, in that order:
\* no task is started twice, and none is settled twice.
C34_CallersRespectTheStateMachine ==
  \A id \in DOMAIN tasks :
    OpsOf(id) \in {<<"create", "start">>,
                   <<"create", "start", "finish">>,
                   <<"create", "start", "error">>}

\* the tasks caller c made for the actions of its plan
ChildrenOf(c) == {runs[c].child[i][1] : i \in {j \in DOMAIN runs[c].child : runs[c].child[j] # None}}

\* C36: a task with a parentId refers to a task of type plan that is in the
\* store and was created before it, and that plan task is the parent task of
\* the execute call that made the child, also when two executions interleave.
C36_ParentIsTheCallersPlan ==
  /\ \A id \in DOMAIN tasks :
       tasks[id].parentId # None =>
         /\ tasks[id].parentId[1] \in 1..(id - 1)
         /\ tasks[tasks[id].parentId[1]].type = "plan"
         /\ \E c \in Callers : /\ runs[c].parentId = tasks[id].parentId
                               /\ id \in ChildrenOf(c)
  /\ \A c \in Callers : \A id \in ChildrenOf(c) : tasks[id].parentId = runs[c].parentId

\* caller 1 made a child for its second bucket after caller 2 had made its plan task
C36_Witness ==
  /\ runs[1].kind = "plan" /\ runs[2].kind = "plan"
  /\ \E id \in ChildrenOf(1) : id > runs[2].parentId[1] /\ runs[2].parentId[1] > runs[1].parentId[1]
  /\ ChildrenOf(2) # {}

SparkCallers == {c \in Callers : runs[c].kind = "spark"}

\* C37: SparkAgentClient.execute makes one task and starts it before fetch is
\* called; when it has returned, the result names that task, the task is
\* completed if the result reports success and failed with the result's error
\* message if not; the call never raises.
C37_SparkTracksItsTask ==
  /\ Cardinality({id \in DOMAIN tasks : tasks[id].name = "Spark"}) = Cardinality(SparkCallers)
  /\ \A c \in SparkCallers :
       LET id == runs[c].internalTask[1]
       IN /\ runs[c].phase \in {"waiting", "returned"}
          /\ runs[c].internalTask # None
          /\ tasks[id].name = "Spark"
          /\ \A d \in SparkCallers : runs[d].internalTask = runs[c].internalTask => d = c
          /\ SubSeq(OpsOf(id), 1, 2) = <<"create", "start">>
          /\ runs[c].phase = "waiting" =>
               /\ tasks[id].status = "running"
               /\ OpsOf(id) = <<"create", "start">>
          /\ runs[c].phase = "returned" =>
               LET result == runs[c].result[1]
               IN /\ result.taskId = Some(id)
                  /\ tasks[id].status \in Terminal
                  /\ result.success <=> tasks[id].status = "completed"
                  /\ ~result.success =>
                       /\ tasks[id].status = "failed"
                       /\ result.error # None
                       /\ tasks[id].error = result.error

\* both callers ran the Spark client at the same time; one returned success,
\* the other a failure
C37_Witness ==
  /\ SparkCallers = Callers
  /\ runs[1].phase = "returned" /\ runs[1].result[1].success
  /\ runs[2].phase = "returned" /\ ~runs[2].result[1].success
  /\ runs[2].internalTask[1] < runs[1].internalTask[1]

\* ------------------------------------------------ termination (under SpecPlanFair)
\* the call is over and every task it made is completed or failed
Settles ==
  /\ phase \in {"returned", "raised"}
  /\ parentId # None => Parent.status \in Terminal
  /\ \A i \in DOMAIN child : child[i] # None => ChildOf(i).status \in Terminal

\* C33: when every pending backend call is answered, a call of execute comes
\* to return or raise, with its parent task completed or failed at that point,
\* and every child task it made comes to be completed or failed and stays so:
\* no task of the executor stays pending or running for ever.
C33_ExecuteTerminates ==
  /\ []((phase \in {"returned", "raised"} /\ parentId # None) => Parent.status \in Terminal)
  /\ (plan # None) ~> []Settles

\* an execution that raised while a sibling of the failed action was in
\* flight has all its tasks settled
C33_Witness ==
  /\ phase = "raised"
  /\ Settles
  /\ \E i \in DOMAIN child :
       /\ child[i] # None
       /\ \E n \in MutationsOf(parentId[1], "error"), m \in MutationsOf(child[i][1], "finish") :
            n < m

\* ------------------------------------------------ single attempts (under SpecCore)
\* the tasks made for action i of the plan
TasksOfAction(i) ==
  {id \in DOMAIN tasks : tasks[id].parentId = parentId /\ parentId # None
                         /\ tasks[id].metadata = Some(<<"actionId", i>>)}

\* C31: nothing is tried twice: an action of a plan has at most one child task
\* and its backend is called at most once; a unit of work handed to delegate,
\* delegateParallel or delegateSequential is dispatched at most once and has
\* at most one task; and no task is started after it was failed (no task is
\* started twice at all).
C31_NoRetry ==
  /\ \A i \in DOMAIN act :
       /\ Cardinality(TasksOfAction(i)) <= 1
       /\ Cardinality({c \in DOMAIN calls : calls[c].action = i}) <= 1
  /\ \A i \in DOMAIN works :
       Cardinality({d \in DOMAIN dispatch : dispatch[d].item = i}) <= 1
  /\ Cardinality({id \in DOMAIN tasks : tasks[id].name = "Spark"})
       = Cardinality({d \in DOMAIN dispatch : dispatch[d].invoked = Some("spark-agent")})
  /\ \A id \in DOMAIN tasks :
       /\ Cardinality(MutationsOf(id, "start")) <= 1
       /\ \A n \in MutationsOf(id, "error") : \A m \in MutationsOf(id, "start") : m < n

\* delegateSequential returned after its first unit failed at the backend: the
\* unit was dispatched once, its task was failed and not started again, and
\* the next unit was dispatched
C31_Witness ==
  /\ mode = "delegateSequential" /\ returned # None
  /\ Len(works) >= 2
  /\ results[1] # None /\ ~results[1][1].success
  /\ item[1].internalTask # None
  /\ OpsOf(item[1].internalTask[1]) = <<"create", "start", "error">>
  /\ Cardinality({d \in DOMAIN dispatch : dispatch[d].item = 1}) = 1
  /\ item[2].internalTask # None

====
